---- MODULE Spec2Model ----
(***************************************************************************)
(* A model of the host selector (src/src/async_api/host_selector.rs) and   *)
(* of the part of the dotter it drives (src/src/async_api/dot.rs).         *)
(*                                                                         *)
(* Durations handed to callers (timeouts) are in milliseconds.  The        *)
(* monotonic clock `now` and punish_duration are in abstract ticks.        *)
(* An Option<T> is a sequence of length 0 (None) or 1 (Some).              *)
(***************************************************************************)
EXTENDS Integers, Sequences, FiniteSets, TLC

VARIABLES
    hosts,                  \* HostsUpdater.hosts: RwLock<Vec<String>>
    hosts_map,              \* HostsUpdater.hosts_map: HashMap<String, PunishedInfo>
    index,                  \* HostsUpdater.index: AtomicUsize
    current_timeout_power,  \* HostsUpdater.current_timeout_power: AtomicUsize
    host_punisher,          \* HostSelector.host_punisher: HostPunisher
    overflow_checks,        \* whether the build checks arithmetic overflow
    now,                    \* Instant::now()
    sel,                    \* the task running select_host
    upd,                    \* the task running set_hosts
    dotting_disabled,       \* static DOTTING_DISABLED
    dot_uploading_disabled, \* static DOT_UPLOADING_DISABLED
    dotter_inner,           \* Dotter.inner: Option<Arc<DotterInner>>
    buffered_records,       \* DotterInner.buffered_records
    buffered_file,          \* the lines of the dot file
    file_locked,            \* the advisory lock of the dot file is held by another process
    upload_tasks,           \* the number of upload tasks async_upload has spawned
    records_map,            \* the DotRecordsMap make_request_body builds
    callers,                \* the tasks inside Dotter::dot and Dotter::punish
    uploader,               \* the upload tasks past their try_lock
    section,                \* the tasks holding the buffered_file mutex and its write lock
    monitor,                \* what the monitor has been sent and has answered 200 to
    dots_merged,            \* history: the calls merged, where they are, the last upload
    clients,                \* the threads holding a clone of one RangeReaderHandle
    request_channel,        \* the unbounded channel of (Request, OneshotResponse)
    oneshots,               \* the oneshot channel of every request sent
    worker,                 \* the runtime thread: its loop and the tasks it spawned
    inner_drop,             \* where RangeReaderHandleInner::drop is
    update_option,          \* HostsUpdater.update_option: Option<UpdateOption>
    refreshers,             \* the tasks refreshing the hosts, spawned or manual
    START_TIME,             \* static START_TIME: AtomicU64, milliseconds since the epoch
    last                    \* the last completed call, its input and its result

selector_vars == <<hosts, hosts_map, index, current_timeout_power, host_punisher, overflow_checks>>
bridge_vars == <<clients, request_channel, oneshots, worker, inner_drop>>
refresh_vars == <<update_option, refreshers>>
task_vars == <<sel, upd, bridge_vars, refresh_vars, START_TIME>>
upload_vars == <<records_map, callers, uploader, section, monitor, dots_merged>>
dotter_vars == <<dotting_disabled, dot_uploading_disabled, dotter_inner, buffered_records, buffered_file, file_locked, upload_tasks, upload_vars>>
vars == <<selector_vars, now, task_vars, dotter_vars, last>>

----------------------------------------------------------------------------
(* Bounds of the model *)

\* the host names a registry may hold
Hosts == {"h1", "h2", "h3"}
\* the errors handed to punish
Errors == {"timeout", "other"}
\* the clock stops at MaxTime
MaxTime == 1
\* punish is not called on a host punished MaxPunishCount times in a row
MaxPunishCount == 3
\* the largest timeout_power handed to increase_timeout_power_by
MaxPowerArg == 1
\* the largest timeout_power handed to increase_timeout_power_by by the callers
\* around select_host and set_hosts
MaxQuietPowerArg == 0
\* no timeout escalates a host beyond timeout_power MaxTimeoutPower
MaxTimeoutPower == 33
\* punish is not called once the dotter holds MaxDots punishments or has
\* spawned MaxDots upload tasks
MaxDots == 2
\* the longest list handed to set_hosts
MaxNewHosts == 2
\* stands for 2^64, where the usize counter `index` wraps
UsizeModulus == 4
\* the tries a dotter is built with
Tries == 2
\* no upload task runs once the monitor was sent MaxRequests requests
MaxRequests == 2
\* the clock of the uploads stops at MaxUploadTime
MaxUploadTime == 2
\* the calls of read_at one thread makes through its clone of the handle
MaxReads == 1
\* the clock of the refreshes stops at MaxRefreshTime
MaxRefreshTime == 4
\* stands for 2^64: a serde_json::Value holds the integers below it as u64
U64Modulus == 1000
\* stands for 2^128, where the u128 delta of a request id wraps
U128Modulus == 1000000000
\* the latest millisecond of the times handed to the request-id functions
MaxReqMillis == 3
\* the nanoseconds of a millisecond
NanosPerMilli == 1000000
\* another process appends to the dot file while it holds fewer than
\* MaxOtherLines lines
MaxOtherLines == 1
\* the punishments in a row of a host whose frame is compared
MaxFramePunished == 1
\* the calls of dot whose aggregate at the monitor is compared with their mean
MaxAggregateDots == 3
\* the largest count of one merged record
MaxMergeCount == 2
\* the calls all the merged records together may stand for
MaxMergedCalls == 4

----------------------------------------------------------------------------
(* Values *)

None == <<>>
Some(v) == <<v>>
IsSome(o) == Len(o) = 1
Unwrap(o) == o[1]

Min(a, b) == IF a <= b THEN a ELSE b
Max(a, b) == IF a >= b THEN a ELSE b

Range(s) == {s[i] : i \in 1..Len(s)}

RECURSIVE SeqsUpTo(_, _)
SeqsUpTo(S, n) ==
    IF n = 0 THEN {<<>>}
    ELSE LET shorter == SeqsUpTo(S, n - 1)
         IN shorter \cup {Append(s, x) : s \in {t \in shorter : Len(t) = n - 1}, x \in S}

\* the orders Vec::shuffle may leave a list in
Shuffles(s) ==
    {t \in [1..Len(s) -> Range(s)] :
        \E p \in [1..Len(s) -> 1..Len(s)] :
            /\ \A i, j \in 1..Len(s) : i # j => p[i] # p[j]
            /\ \A i \in 1..Len(s) : t[i] = s[p[i]]}

\* PunishedInfo::default()
DefaultPunishedInfo ==
    [last_punished_at |-> None,
     continuous_punished_times |-> 0,
     timeout_power |-> 0,
     failed_to_connect |-> FALSE]

\* an update that runs the closure on every entry of the map
update_async_every_entry(map, host, updated) ==
    IF host \in DOMAIN map THEN updated ELSE map

\* scc::HashMap::update_async: the closure, whose result on each entry is
\* updated[host], runs only on a present key
update_async(map, host, updated) ==
    IF host \in DOMAIN map THEN [map EXCEPT ![host] = updated[host]] ELSE map

----------------------------------------------------------------------------
(* HostPunisher *)

\* hosts_count * usize::from(percent) / 100
max_seek_times(hp, hosts_count) == (hosts_count * hp.max_punished_hosts_percent) \div 100

is_available(hp, punished_info, connection_sensitive) ==
    IF connection_sensitive /\ punished_info.failed_to_connect
    THEN FALSE
    ELSE punished_info.continuous_punished_times <= hp.max_punished_times

is_punishment_expired(hp, punished_info, t) ==
    IF IsSome(punished_info.last_punished_at)
    THEN t - Unwrap(punished_info.last_punished_at) >= hp.punish_duration
    ELSE TRUE

should_punish(hp, error) ==
    IF IsSome(hp.should_punish_func) THEN error \in Unwrap(hp.should_punish_func) ELSE TRUE

\* the bits of u32, the type of the literal 1 in `1 << timeout_power`
ShiftBits == 32
\* Duration::from_secs(600), in milliseconds
MaxTimeoutMs == 600000

\* min(d * 2^e, cap): Duration's multiplication is exact over the whole range
RECURSIVE MulPow2Capped(_, _, _)
MulPow2Capped(d, e, cap) ==
    IF e = 0 \/ d >= cap THEN Min(d, cap) ELSE MulPow2Capped(2 * d, e - 1, cap)

\* `1 << timeout_power` on u32: a build with overflow checks panics when the
\* shift is 32 or more, a build without them masks the shift to its low 5 bits
timeout_panics(punished_info, checks) ==
    punished_info.timeout_power >= ShiftBits /\ checks

\* the Duration (in ms) timeout returns when it does not panic
timeout(hp, punished_info) ==
    MulPow2Capped(hp.base_timeout, punished_info.timeout_power % ShiftBits, MaxTimeoutMs)

----------------------------------------------------------------------------
(* The updates of one host's PunishedInfo *)

saturating_sub(a, b) == IF a >= b THEN a - b ELSE 0

\* a reward whose timeout_power - 1 wraps at 0 instead of saturating
RewardInfo_wrapping(punished_info) ==
    [punished_info EXCEPT
        !.continuous_punished_times = 0,
        !.failed_to_connect = FALSE,
        !.timeout_power = (punished_info.timeout_power - 1) % UsizeModulus]

RewardInfo(punished_info) ==
    [punished_info EXCEPT
        !.continuous_punished_times = 0,
        !.failed_to_connect = FALSE,
        !.timeout_power = saturating_sub(punished_info.timeout_power, 1)]

PunishInfo(punished_info, t) ==
    [punished_info EXCEPT
        !.continuous_punished_times = punished_info.continuous_punished_times + 1,
        !.last_punished_at = Some(t)]

\* an increase that stores timeout_power + 1 without comparing
IncreaseInfo_overwriting(punished_info, timeout_power, t) ==
    [punished_info EXCEPT !.timeout_power = timeout_power + 1, !.last_punished_at = Some(t)]

\* an increase that adds one to the stored timeout_power whatever was handed out
IncreaseInfo_by_stored(punished_info, timeout_power, t) ==
    [punished_info EXCEPT !.timeout_power = @ + 1, !.last_punished_at = Some(t)]

IncreaseInfo(punished_info, timeout_power, t) ==
    LET p == timeout_power + 1
    IN [punished_info EXCEPT
           !.timeout_power = IF punished_info.timeout_power < p THEN p ELSE @,
           !.last_punished_at = Some(t)]

MarkInfo(punished_info, t) ==
    [punished_info EXCEPT !.failed_to_connect = TRUE, !.last_punished_at = Some(t)]

----------------------------------------------------------------------------
(* HostsUpdater::set_hosts, one step per await *)

\* an upsert that keeps the state of a host the map already holds
entry_or_default_keeping(map, host) ==
    [h \in DOMAIN map \cup {host} |-> IF h \in DOMAIN map THEN map[h] ELSE DefaultPunishedInfo]

\* entry_async(host).and_modify(|v| *v = Default::default()).or_default()
entry_or_default(map, host) ==
    [h \in DOMAIN map \cup {host} |-> IF h = host THEN DefaultPunishedInfo ELSE map[h]]

\* the for loop of set_hosts over the first n hosts of the new list
RECURSIVE reset_entries(_, _, _)
reset_entries(map, new_hosts, n) ==
    IF n = 0 THEN map
    ELSE entry_or_default(reset_entries(map, new_hosts, n - 1), new_hosts[n])

\* retain_async(|host, _| new_hosts_set.contains(host))
retain(map, new_hosts_set) == [h \in DOMAIN map \cap new_hosts_set |-> map[h]]

\* the map set_hosts leaves when nothing runs between its steps
set_hosts_map(map, new_hosts) ==
    retain(reset_entries(map, new_hosts, Len(new_hosts)), Range(new_hosts))

----------------------------------------------------------------------------
(* The calls of HostSelector that update one entry of the map *)

PunishResults == {"NoPunishment", "Punished", "PunishedAndFreezed"}

\* a punish that freezes one punishment early (< for <=)
punish_result_early(hp, map, host, error, t) ==
    IF should_punish(hp, error)
    THEN IF host \in DOMAIN map
            /\ ~(PunishInfo(map[host], t).continuous_punished_times < hp.max_punished_times)
         THEN "PunishedAndFreezed"
         ELSE "Punished"
    ELSE "NoPunishment"

\* the PunishResult of punish_without_dotter; update_async yields None for a
\* host the map does not hold, which unwrap_or makes Punished
punish_result(hp, map, host, error, t) ==
    IF should_punish(hp, error)
    THEN IF host \in DOMAIN map /\ ~is_available(hp, PunishInfo(map[host], t), FALSE)
         THEN "PunishedAndFreezed"
         ELSE "Punished"
    ELSE "NoPunishment"

\* the map punish_without_dotter leaves
punish_map(hp, map, host, error, t) ==
    IF should_punish(hp, error)
    THEN update_async(map, host, [h \in DOMAIN map |-> PunishInfo(map[h], t)])
    ELSE map

reward(host) ==
    /\ hosts_map' = update_async(hosts_map, host, [h \in DOMAIN hosts_map |-> RewardInfo(hosts_map[h])])
    /\ UNCHANGED <<hosts, index, current_timeout_power, host_punisher, overflow_checks>>
    /\ UNCHANGED <<now, task_vars, dotter_vars>>

punish_without_dotter(host, error) ==
    /\ hosts_map' = punish_map(host_punisher, hosts_map, host, error, now)
    /\ UNCHANGED <<hosts, index, current_timeout_power, host_punisher, overflow_checks>>
    /\ UNCHANGED <<now, task_vars, dotter_vars>>

increase_timeout_power_by(host, timeout_power) ==
    /\ hosts_map' = update_async(hosts_map, host,
                               [h \in DOMAIN hosts_map |->
                                   IncreaseInfo(hosts_map[h], timeout_power, now)])
    /\ UNCHANGED <<hosts, index, current_timeout_power, host_punisher, overflow_checks>>
    /\ UNCHANGED <<now, task_vars, dotter_vars>>

mark_connection_as_failed(host) ==
    /\ hosts_map' = update_async(hosts_map, host,
                               [h \in DOMAIN hosts_map |-> MarkInfo(hosts_map[h], now)])
    /\ UNCHANGED <<hosts, index, current_timeout_power, host_punisher, overflow_checks>>
    /\ UNCHANGED <<now, task_vars, dotter_vars>>

\* set_hosts run from its first step to its last with no other call between
set_hosts(new_hosts, shuffled) ==
    /\ shuffled \in Shuffles(new_hosts)
    /\ hosts_map' = set_hosts_map(hosts_map, new_hosts)
    /\ hosts' = shuffled
    /\ UNCHANGED <<index, current_timeout_power, host_punisher, overflow_checks>>
    /\ UNCHANGED <<now, task_vars, dotter_vars>>

----------------------------------------------------------------------------
(* Candidate and its order *)

Cmp(a, b) == IF a < b THEN -1 ELSE IF a > b THEN 1 ELSE 0

\* Option<Instant>: None is less than every Some
CmpOptionalInstant(a, b) ==
    IF IsSome(a) /\ IsSome(b) THEN Cmp(Unwrap(a), Unwrap(b))
    ELSE Cmp(Len(a), Len(b))

\* impl Ord for PunishedInfo
CmpPunishedInfo(a, b) ==
    IF a.failed_to_connect # b.failed_to_connect
    THEN (IF b.failed_to_connect THEN -1 ELSE 1)
    ELSE IF a.timeout_power # b.timeout_power
    THEN Cmp(a.timeout_power, b.timeout_power)
    ELSE IF a.continuous_punished_times # b.continuous_punished_times
    THEN Cmp(a.continuous_punished_times, b.continuous_punished_times)
    ELSE CmpOptionalInstant(a.last_punished_at, b.last_punished_at)

\* Candidate::is_available
CandidateIsAvailable(hp, c) ==
    /\ ~c.punished_info.failed_to_connect
    /\ c.punished_info.continuous_punished_times <= hp.max_punished_times

\* an order of the candidates whose availability leaves failed_to_connect out
CmpCandidate_connection_blind(hp, a, b, t) ==
    LET ea == is_punishment_expired(hp, a.punished_info, t)
        eb == is_punishment_expired(hp, b.punished_info, t)
        aa == is_available(hp, a.punished_info, FALSE)
        ab == is_available(hp, b.punished_info, FALSE)
    IN IF ea /\ eb THEN 0
       ELSE IF ea THEN 1
       ELSE IF eb THEN -1
       ELSE IF aa /\ ~ab THEN 1
       ELSE IF ~aa /\ ab THEN -1
       ELSE CmpPunishedInfo(b.punished_info, a.punished_info)

\* impl Ord for Candidate, at the instant t of the comparison
CmpCandidate(hp, a, b, t) ==
    LET ea == is_punishment_expired(hp, a.punished_info, t)
        eb == is_punishment_expired(hp, b.punished_info, t)
        aa == CandidateIsAvailable(hp, a)
        ab == CandidateIsAvailable(hp, b)
    IN IF ea /\ eb THEN 0
       ELSE IF ea THEN 1
       ELSE IF eb THEN -1
       ELSE IF aa /\ ~ab THEN 1
       ELSE IF ~aa /\ ab THEN -1
       ELSE CmpPunishedInfo(b.punished_info, a.punished_info)

\* Iterator::max over the first n candidates: of equal maxima the last one
RECURSIVE MaxCandidate(_, _, _, _)
MaxCandidate(hp, candidates, n, t) ==
    IF n = 1 THEN candidates[1]
    ELSE LET best == MaxCandidate(hp, candidates, n - 1, t)
         IN IF CmpCandidate(hp, best, candidates[n], t) = 1 THEN best ELSE candidates[n]

----------------------------------------------------------------------------
(* HostSelector::select_host *)

is_satisfied_with(hp, punished_info, ctp) ==
    is_available(hp, punished_info, TRUE) /\ ctp >= punished_info.timeout_power

\* a start that reads no counter: every call probes from the first host
SelectStart_from_zero(idx) ==
    [index |-> 0, chosen |-> None, candidates |-> <<>>, broke |-> FALSE, panicked |-> FALSE]

\* the locals of select_host before its loop, with the counter it reads
SelectStart(idx) ==
    [index |-> idx, chosen |-> None, candidates |-> <<>>, broke |-> FALSE, panicked |-> FALSE]

\* a probe that does not look at tried
SelectProbe_ignoring_tried(hs, map, hp, checks, ctp, t, tried, st) ==
    LET next == [st EXCEPT !.index = (st.index + 1) % UsizeModulus]
        host == hs[(st.index % Len(hs)) + 1]
    IN IF Len(hs) = 0 THEN [next EXCEPT !.panicked = TRUE]
       ELSE IF host \notin DOMAIN map THEN next
       ELSE [next EXCEPT
                !.chosen = Some([host |-> host, timeout |-> hp.base_timeout, timeout_power |-> 0]),
                !.broke = TRUE]

\* a probe that hands out the stored timeout of a host whose punishment expired
SelectProbe_stored_timeout(hs, map, hp, checks, ctp, t, tried, st) ==
    LET next == [st EXCEPT !.index = (st.index + 1) % UsizeModulus]
    IN IF Len(hs) = 0 THEN [next EXCEPT !.panicked = TRUE]
       ELSE
       LET host == hs[(st.index % Len(hs)) + 1]
       IN IF host \in tried THEN next
          ELSE IF host \notin DOMAIN map THEN next
          ELSE LET info == map[host]
               IN IF is_punishment_expired(hp, info, t) \/ is_satisfied_with(hp, info, ctp)
                  THEN [next EXCEPT
                           !.chosen = Some([host |-> host, timeout |-> timeout(hp, info),
                                            timeout_power |-> info.timeout_power]),
                           !.broke = TRUE,
                           !.panicked = timeout_panics(info, checks)]
                  ELSE [next EXCEPT
                           !.candidates = Append(@, [host |-> host, punished_info |-> info])]

\* one turn of the loop: next_index, then the host at index % len is skipped
\* (in tried, or read_async finds no entry), chosen, or kept as a candidate
SelectProbe(hs, map, hp, checks, ctp, t, tried, st) ==
    LET next == [st EXCEPT !.index = (st.index + 1) % UsizeModulus]
    IN IF Len(hs) = 0 THEN [next EXCEPT !.panicked = TRUE]
       ELSE
       LET host == hs[(st.index % Len(hs)) + 1]
       IN IF host \in tried THEN next
          ELSE IF host \notin DOMAIN map THEN next
          ELSE LET info == map[host]
               IN IF is_punishment_expired(hp, info, t)
                  THEN [next EXCEPT
                           !.chosen = Some([host |-> host, timeout |-> hp.base_timeout,
                                            timeout_power |-> 0]),
                           !.broke = TRUE]
                  ELSE IF is_satisfied_with(hp, info, ctp)
                  THEN [next EXCEPT
                           !.chosen = Some([host |-> host, timeout |-> timeout(hp, info),
                                            timeout_power |-> info.timeout_power]),
                           !.broke = TRUE,
                           !.panicked = timeout_panics(info, checks)]
                  ELSE [next EXCEPT
                           !.candidates = Append(@, [host |-> host, punished_info |-> info])]

\* the loop `for _ in 0..=max_seek_times`, n turns of it left
RECURSIVE SelectLoop(_, _, _, _, _, _, _, _, _)
SelectLoop(hs, map, hp, checks, ctp, t, tried, st, n) ==
    IF n = 0 \/ st.broke \/ st.panicked THEN st
    ELSE SelectLoop(hs, map, hp, checks, ctp, t, tried,
                    SelectProbe(hs, map, hp, checks, ctp, t, tried, st), n - 1)

\* a finish that forgets the candidates
SelectFinish_without_candidates(hp, t, st) == st.chosen

\* chosen_host_info.or_else(|| candidates.into_iter().max().map(..))
SelectFinish(hp, t, st) ==
    IF IsSome(st.chosen) THEN st.chosen
    ELSE IF Len(st.candidates) = 0 THEN None
    ELSE LET c == MaxCandidate(hp, st.candidates, Len(st.candidates), t)
         IN Some([host |-> c.host, timeout |-> timeout(hp, c.punished_info),
                  timeout_power |-> c.punished_info.timeout_power])

\* whether the timeout of the candidate the finish falls back to panics
SelectFinishPanics(hp, checks, t, st) ==
    /\ ~IsSome(st.chosen)
    /\ Len(st.candidates) > 0
    /\ timeout_panics(MaxCandidate(hp, st.candidates, Len(st.candidates), t).punished_info,
                      checks)

\* select_host run with no other call between its steps: the counter it
\* leaves, whether it panicked (the remainder by an empty sequence's length, or
\* the shift of timeout), and the Option<HostInfo> it returns
select_host_run(hs, map, hp, checks, ctp, idx, t, tried) ==
    LET st == SelectLoop(hs, map, hp, checks, ctp, t, tried, SelectStart(idx),
                         max_seek_times(hp, Len(hs)) + 1)
        panicked == st.panicked \/ SelectFinishPanics(hp, checks, t, st)
    IN [index |-> st.index,
        panicked |-> panicked,
        result |-> IF panicked THEN None ELSE SelectFinish(hp, t, st)]

\* a return that stores nothing
store_timeout_power_never(ctp, result) == ctp

\* .map(|chosen| { current_timeout_power.store(chosen.timeout_power); .. })
store_timeout_power(ctp, result) ==
    IF IsSome(result) THEN Unwrap(result).timeout_power ELSE ctp

select_host(tried) ==
    LET run == select_host_run(hosts, hosts_map, host_punisher, overflow_checks,
                               current_timeout_power, index, now, tried)
    IN /\ index' = run.index
       /\ current_timeout_power' = store_timeout_power(current_timeout_power, run.result)
       /\ UNCHANGED <<hosts, hosts_map, host_punisher, overflow_checks>>
       /\ UNCHANGED <<now, task_vars, dotter_vars>>

----------------------------------------------------------------------------
(* The dotter: its records in memory, the lines of its file, and punish.   *)
(* interval and uploaded_at are in ticks, max_buffer_size and the size of  *)
(* the file in bytes.                                                      *)

\* DotRecord::punished()
PunishedRecord == [type |-> "PunishedCount", punished_count |-> 1]

\* DotRecord::new: an APICalls record; `type` names the variant of the enum,
\* dot_type is the field serde writes as "type"
DotRecordNew(dot_type, api_name, success_count, failed_count, success_avg_elapsed_duration, failed_avg_elapsed_duration) ==
    [type |-> "APICalls",
     dot_type |-> dot_type,
     api_name |-> api_name,
     success_count |-> success_count,
     success_avg_elapsed_duration |-> success_avg_elapsed_duration,
     failed_count |-> failed_count,
     failed_avg_elapsed_duration |-> failed_avg_elapsed_duration]

\* DotRecord::key: DotRecordKey::APICalls{dot_type, api_name} or PunishedCount
RecordKey(record) ==
    IF record.type = "APICalls"
    THEN <<record.dot_type, record.api_name>>
    ELSE <<"PunishedCount">>

\* a merge that averages the two averages without their counts
and_modify_unweighted(r, record) ==
    IF r.type = "APICalls"
    THEN [r EXCEPT
             !.success_count = @ + record.success_count,
             !.failed_count = @ + record.failed_count,
             !.success_avg_elapsed_duration =
                 (@ + record.success_avg_elapsed_duration) \div 2,
             !.failed_avg_elapsed_duration =
                 (@ + record.failed_avg_elapsed_duration) \div 2]
    ELSE [r EXCEPT !.punished_count = @ + record.punished_count]

\* the closure AsyncDotRecordsMap::merge_with_record hands to and_modify; the
\* key of a record fixes its variant, so the two records are of one variant
and_modify(r, record) ==
    IF r.type = "APICalls"
    THEN LET success_elapsed_duration_total ==
                 r.success_avg_elapsed_duration * r.success_count
                     + record.success_avg_elapsed_duration * record.success_count
             failed_elapsed_duration_total ==
                 r.failed_avg_elapsed_duration * r.failed_count
                     + record.failed_avg_elapsed_duration * record.failed_count
             success_count == r.success_count + record.success_count
             failed_count == r.failed_count + record.failed_count
         IN [r EXCEPT
                !.success_count = success_count,
                !.failed_count = failed_count,
                !.success_avg_elapsed_duration =
                    IF success_count > 0
                    THEN success_elapsed_duration_total \div success_count ELSE 0,
                !.failed_avg_elapsed_duration =
                    IF failed_count > 0
                    THEN failed_elapsed_duration_total \div failed_count ELSE 0]
    ELSE [r EXCEPT !.punished_count = @ + record.punished_count]

\* AsyncDotRecordsMap::merge_with_record: entry_async(key).and_modify(..)
\* .or_insert_with(..)
merge_with_record(records, record) ==
    IF RecordKey(record) \in DOMAIN records
    THEN [records EXCEPT ![RecordKey(record)] = and_modify(@, record)]
    ELSE records @@ (RecordKey(record) :> record)

\* the closure DotRecordsMap::merge_with_record hands to and_modify
DotRecordsMap_and_modify(r, record) ==
    IF r.type = "APICalls"
    THEN LET success_elapsed_duration_total ==
                 r.success_avg_elapsed_duration * r.success_count
                     + record.success_avg_elapsed_duration * record.success_count
             failed_elapsed_duration_total ==
                 r.failed_avg_elapsed_duration * r.failed_count
                     + record.failed_avg_elapsed_duration * record.failed_count
             success_count == r.success_count + record.success_count
             failed_count == r.failed_count + record.failed_count
         IN [r EXCEPT
                !.success_count = success_count,
                !.failed_count = failed_count,
                !.success_avg_elapsed_duration =
                    IF success_count > 0
                    THEN success_elapsed_duration_total \div success_count ELSE 0,
                !.failed_avg_elapsed_duration =
                    IF failed_count > 0
                    THEN failed_elapsed_duration_total \div failed_count ELSE 0]
    ELSE [r EXCEPT !.punished_count = @ + record.punished_count]

\* DotRecordsMap::merge_with_record: entry(key).and_modify(..).or_insert(record)
DotRecordsMap_merge_with_record(map, record) ==
    IF RecordKey(record) \in DOMAIN map
    THEN [map EXCEPT ![RecordKey(record)] = DotRecordsMap_and_modify(@, record)]
    ELSE map @@ (RecordKey(record) :> record)

\* serde_json::to_string(record): the JSON object of the untagged enum, whose
\* "type" member is the dot_type of an APICalls record
to_string(record) ==
    IF record.type = "APICalls"
    THEN [type |-> record.dot_type,
          api_name |-> record.api_name,
          success_count |-> record.success_count,
          success_avg_elapsed_duration |-> record.success_avg_elapsed_duration,
          failed_count |-> record.failed_count,
          failed_avg_elapsed_duration |-> record.failed_avg_elapsed_duration]
    ELSE [punished_count |-> record.punished_count]

\* the members APICallsDotRecord::deserialize asks for
APICallsMembers ==
    {"type", "api_name", "success_count", "success_avg_elapsed_duration",
     "failed_count", "failed_avg_elapsed_duration"}

\* the members of the two structs that are numbers (usize or u128)
NumberMembers ==
    {"success_count", "success_avg_elapsed_duration", "failed_count",
     "failed_avg_elapsed_duration", "punished_count"}

\* JSONValue::deserialize(deserializer): the serde_json::Value of the object.
\* A Value keeps a non-negative integer as a u64; the digits of a larger one
\* are read as a floating point number
JSONValue_deserialize(line) ==
    [m \in DOMAIN line |->
        IF m \in NumberMembers
        THEN IF line[m] < U64Modulus THEN <<"PosInt", line[m]>> ELSE <<"Float", line[m]>>
        ELSE <<"String", line[m]>>]

\* usize and u128 are read from the integers of a Value, not from its floats
IntegerMembers(value, members) ==
    \A m \in members \cap NumberMembers : value[m][1] = "PosInt"

\* APICallsDotRecord::deserialize(&value), derived: every member is asked for
APICallsDotRecord_deserialize(value) ==
    IF APICallsMembers \subseteq DOMAIN value /\ IntegerMembers(value, APICallsMembers)
    THEN Some(DotRecordNew(value["type"][2], value["api_name"][2],
                           value["success_count"][2], value["failed_count"][2],
                           value["success_avg_elapsed_duration"][2],
                           value["failed_avg_elapsed_duration"][2]))
    ELSE None

\* PunishedCountDotRecord::deserialize(&value), derived
PunishedCountDotRecord_deserialize(value) ==
    IF "punished_count" \in DOMAIN value /\ IntegerMembers(value, {"punished_count"})
    THEN Some([type |-> "PunishedCount", punished_count |-> value["punished_count"][2]])
    ELSE None

\* serde_json::from_str::<DotRecord>(line), DotRecord::deserialize: an APICalls
\* record when APICallsDotRecord reads the Value, else a PunishedCount record,
\* else an error (None)
from_str(line) ==
    LET value == JSONValue_deserialize(line)
    IN IF IsSome(APICallsDotRecord_deserialize(value))
       THEN APICallsDotRecord_deserialize(value)
       ELSE PunishedCountDotRecord_deserialize(value)

RECURSIVE Digits(_)
Digits(n) == IF n < 10 THEN 1 ELSE 1 + Digits(n \div 10)

\* the bytes of serde_json::to_string(record) and the '\n' pushed after it:
\* {"punished_count":N}, or {"type":"..","api_name":"..","success_count":N,
\* "success_avg_elapsed_duration":N,"failed_count":N,
\* "failed_avg_elapsed_duration":N}
LineBytes(record) ==
    IF record.type = "APICalls"
    THEN 122 + Len(record.dot_type) + Len(record.api_name)
             + Digits(record.success_count) + Digits(record.success_avg_elapsed_duration)
             + Digits(record.failed_count) + Digits(record.failed_avg_elapsed_duration)
    ELSE 20 + Digits(record.punished_count)

\* metadata().len(): every line of the file was written by write_to_file
RECURSIVE FileBytes(_)
FileBytes(file) ==
    IF Len(file) = 0 THEN 0
    ELSE LineBytes(Unwrap(from_str(Head(file)))) + FileBytes(Tail(file))

\* the records of the keys in K, one line each, in the order scan_async met them
RECURSIVE Lines(_, _)
Lines(records, K) ==
    IF K = {} THEN <<>>
    ELSE LET k == CHOOSE k \in K : TRUE
         IN <<to_string(records[k])>> \o Lines(records, K \ {k})

\* what the file system does to one critical section: nothing goes wrong, the
\* handle cannot be cloned, write_all fails, the final flush fails, or
\* metadata fails
IoOutcomes == {"ok", "lock_err", "write_err", "flush_err", "stat_err"}

\* the critical sections that meet no error or one kind of error
WriteOutcomes == {"ok", "write_err"}
StatOutcomes == {"ok", "stat_err"}
LockOutcomes == {"ok", "lock_err"}

\* flush_to_file: every record whose line was written leaves the map; the
\* lines reach the file when the BufWriter is flushed
flush_to_file(records, file, io) ==
    LET written == IF io = "write_err" THEN {} ELSE DOMAIN records
    IN [buffered_records |-> [k \in DOMAIN records \ written |-> records[k]],
        buffered_file |-> IF io = "flush_err" THEN file
                          ELSE file \o Lines(records, written),
        ok |-> io # "flush_err"]

\* is_time_to_upload; metadata() is asked only when the interval has not elapsed
is_time_to_upload(disabled, uploading_disabled, inner, file, t) ==
    /\ ~(disabled \/ uploading_disabled)
    /\ \/ t - inner.uploaded_at > inner.interval
       \/ FileBytes(file) > inner.max_buffer_size

\* the record fast_dot merges: one call, with its elapsed milliseconds on the
\* side of its outcome
fast_dot(dot_type, api_name, successful, elapsed_duration) ==
    IF successful
    THEN DotRecordNew(dot_type, api_name, 1, 0, elapsed_duration, 0)
    ELSE DotRecordNew(dot_type, api_name, 0, 1, 0, elapsed_duration)

\* the body Dotter::dot and Dotter::punish share: the merge of the record, then
\* under lock_buffered_file the flush and the upload trigger.  The critical
\* section is skipped when the advisory lock would block; an error ends it
\* with `?` and is the result of the call
dotter_call(record, disabled, uploading_disabled, inner, records, file, locked, tasks, t, io) ==
    LET untouched == [buffered_records |-> records, buffered_file |-> file,
                      upload_tasks |-> tasks, merged |-> records, result |-> "Ok"]
    IN IF disabled \/ ~IsSome(inner) THEN untouched
       ELSE
       LET merged == merge_with_record(records, record)
           flushed == flush_to_file(merged, file, io)
           stat_failed == /\ io = "stat_err"
                          /\ ~(disabled \/ uploading_disabled)
                          /\ ~(t - Unwrap(inner).uploaded_at > Unwrap(inner).interval)
       IN IF locked
          THEN [untouched EXCEPT !.buffered_records = merged, !.merged = merged]
          ELSE IF io = "lock_err"
          THEN [untouched EXCEPT !.buffered_records = merged, !.merged = merged,
                                 !.result = "Err"]
          ELSE [buffered_records |-> flushed.buffered_records,
                buffered_file |-> flushed.buffered_file,
                upload_tasks |->
                    IF /\ flushed.ok
                       /\ ~stat_failed
                       /\ is_time_to_upload(disabled, uploading_disabled, Unwrap(inner),
                                            flushed.buffered_file, t)
                    THEN tasks + 1 ELSE tasks,
                merged |-> merged,
                result |-> IF flushed.ok /\ ~stat_failed THEN "Ok" ELSE "Err"]

\* Dotter::punish
dotter_punish(disabled, uploading_disabled, inner, records, file, locked, tasks, t, io) ==
    dotter_call(PunishedRecord, disabled, uploading_disabled, inner, records, file, locked,
                tasks, t, io)

\* DotRecordsMap::into_records: the values of the map, in the order it yields
\* them
RECURSIVE into_records(_)
into_records(map) ==
    IF DOMAIN map = {} THEN <<>>
    ELSE LET k == CHOOSE k \in DOMAIN map : TRUE
         IN <<map[k]>> \o into_records([j \in DOMAIN map \ {k} |-> map[j]])

\* the loop of make_request_body: a line that does not parse is skipped
RECURSIVE merge_lines(_, _)
merge_lines(map, lines) ==
    IF Len(lines) = 0 THEN map
    ELSE LET record == from_str(Head(lines))
         IN merge_lines(IF IsSome(record)
                        THEN DotRecordsMap_merge_with_record(map, Unwrap(record))
                        ELSE map,
                        Tail(lines))

\* a request body with one record for each line
make_request_body_unmerged(file) == [i \in 1..Len(file) |-> Unwrap(from_str(file[i]))]

\* make_request_body: the records of the file, merged by key
make_request_body(file) == into_records(merge_lines(<<>>, file))

\* what one run of the closure of do_upload meets: the file cannot be opened
\* or read, the request times out, the monitor answers another status than
\* 200 (or the request fails otherwise), it answers 200, or it answers 200
\* and set_len fails
UploadOutcomes == {"read_err", "timeout", "status", "ok", "truncate_err"}

\* the attempts the monitor answers, with 200 or with another status
AnsweredOutcomes == {"status", "ok"}

\* the request left the client
PostSent(outcome) == outcome # "read_err"

\* the monitor answered 200
PostAccepted(outcome) == outcome \in {"ok", "truncate_err"}

\* a closure that empties the file whatever the monitor answered
for_each_host_truncating(st, host_info, outcome, t) ==
    IF ~PostSent(outcome) THEN [st EXCEPT !.ok = FALSE]
    ELSE [st EXCEPT
             !.buffered_records =
                 merge_with_record(@, fast_dot("http", "monitor_v1_stat",
                                               PostAccepted(outcome), 0)),
             !.monitor = [requests |-> @.requests + 1,
                          accepted |-> IF PostAccepted(outcome)
                                       THEN Append(@.accepted,
                                                   make_request_body(st.buffered_file))
                                       ELSE @.accepted],
             !.buffered_file = <<>>,
             !.ok = (outcome = "ok")]

\* the closure do_upload hands to upload_with_retry, run on the state st of
\* the monitor selector, the map, the file and the monitor
for_each_host(st, host_info, outcome, t) ==
    IF ~PostSent(outcome) THEN [st EXCEPT !.ok = FALSE]
    ELSE [st EXCEPT
             !.hosts_map =
                 IF outcome = "timeout"
                 THEN update_async(@, host_info.host,
                                   [h \in DOMAIN @ |->
                                       IncreaseInfo(@[h], host_info.timeout_power, t)])
                 ELSE @,
             !.buffered_records =
                 merge_with_record(@, fast_dot("http", "monitor_v1_stat",
                                               PostAccepted(outcome), 0)),
             !.monitor = [requests |-> @.requests + 1,
                          accepted |-> IF PostAccepted(outcome)
                                       THEN Append(@.accepted,
                                                   make_request_body(st.buffered_file))
                                       ELSE @.accepted],
             !.buffered_file = IF outcome = "ok" THEN <<>> ELSE @,
             !.ok = (outcome = "ok")]

\* the io::Error kinds of the closure, as the should_punish callback sees them
UploadError(outcome) == IF outcome = "timeout" THEN "timeout" ELSE "other"

\* the state an upload starts from
UploadStart(map, idx, ctp, records, file, mon) ==
    [hosts_map |-> map, index |-> idx, current_timeout_power |-> ctp,
     buffered_records |-> records, buffered_file |-> file, monitor |-> mon,
     ok |-> FALSE, result |-> "Ok", returned |-> FALSE, attempts |-> <<>>]

\* the continuous_punished_times the map holds for host
PunishedTimes(map, host) ==
    IF host \in DOMAIN map THEN map[host].continuous_punished_times ELSE 0

\* the timeout_power the map holds for host
StoredPower(map, host) ==
    IF host \in DOMAIN map THEN map[host].timeout_power ELSE 0

\* the match on the result of the closure: Ok rewards the host and returns,
\* Err punishes it and, unless the selector refused to punish, goes on to the
\* next turn.  attempts logs, for every run of the closure, the host, what it
\* met, the file before and after, and what the selector was told
upload_result(st, done, hp, host_info, outcome, t) ==
    LET punished_result == punish_result(hp, done.hosts_map, host_info.host,
                                         UploadError(outcome), t)
        told_map == IF done.ok
                    THEN update_async(done.hosts_map, host_info.host,
                                      [h \in DOMAIN done.hosts_map |->
                                          RewardInfo(done.hosts_map[h])])
                    ELSE punish_map(hp, done.hosts_map, host_info.host,
                                    UploadError(outcome), t)
        attempt == [host |-> host_info.host, outcome |-> outcome,
                    file_before |-> st.buffered_file,
                    file_after |-> done.buffered_file,
                    told |-> IF done.ok THEN "reward" ELSE punished_result,
                    times_before |-> PunishedTimes(st.hosts_map, host_info.host),
                    times_after |-> PunishedTimes(told_map, host_info.host),
                    timeout_power |-> host_info.timeout_power,
                    power_before |-> StoredPower(st.hosts_map, host_info.host),
                    power_after |-> StoredPower(told_map, host_info.host)]
    IN IF done.ok
       THEN [done EXCEPT
                !.hosts_map = told_map,
                !.result = "Ok",
                !.returned = TRUE,
                !.attempts = Append(@, attempt)]
       ELSE [done EXCEPT
                !.hosts_map = told_map,
                !.buffered_records = IF punished_result = "PunishedAndFreezed"
                                     THEN merge_with_record(@, PunishedRecord) ELSE @,
                !.result = "Err",
                !.returned = (punished_result = "NoPunishment"),
                !.attempts = Append(@, attempt)]

\* one turn of the loop of upload_with_retry after select_host returned run
upload_selected(st, run, hp, outcome, t) ==
    IF run.panicked THEN [st EXCEPT !.index = run.index, !.result = "panic", !.returned = TRUE]
    ELSE IF ~IsSome(run.result) THEN [st EXCEPT !.index = run.index, !.returned = TRUE]
    ELSE CHOOSE next \in
             {upload_result(st, done, hp, Unwrap(run.result), outcome, t) :
                 done \in {for_each_host(
                               [st EXCEPT
                                   !.index = run.index,
                                   !.current_timeout_power =
                                       store_timeout_power(@, run.result)],
                               Unwrap(run.result), outcome, t)}} : TRUE

\* a turn that hands select_host the hosts of the attempts made so far
upload_turn_excluding_tried(st, hs, hp, checks, t, outcome) ==
    CHOOSE next \in
        {upload_selected(st, run, hp, outcome, t) :
            run \in {select_host_run(hs, st.hosts_map, hp, checks,
                                     st.current_timeout_power, st.index, t,
                                     {st.attempts[i].host : i \in 1..Len(st.attempts)})}} : TRUE

\* one turn of the loop of upload_with_retry: select_host(&Default::default())
\* and the match on what it returned
upload_turn(st, hs, hp, checks, t, outcome) ==
    CHOOSE next \in
        {upload_selected(st, run, hp, outcome, t) :
            run \in {select_host_run(hs, st.hosts_map, hp, checks,
                                     st.current_timeout_power, st.index, t, {})}} : TRUE

\* upload_with_retry with n turns of `for _ in 0..self.tries` left
RECURSIVE upload_with_retry(_, _, _, _, _, _, _)
upload_with_retry(st, hs, hp, checks, t, outcomes, n) ==
    IF n = 0 \/ st.returned THEN st
    ELSE CHOOSE left \in
             {upload_with_retry(next, hs, hp, checks, t, Tail(outcomes), n - 1) :
                 next \in {upload_turn(st, hs, hp, checks, t, Head(outcomes))}} : TRUE

\* the task async_upload spawns: under lock_buffered_file, is_time_to_upload
\* and then do_upload; what it leaves of st
async_upload(disabled, uploading_disabled, inner, st, hs, hp, checks, locked, t, io, outcomes) ==
    LET stat_failed == /\ io = "stat_err"
                       /\ ~(disabled \/ uploading_disabled)
                       /\ ~(t - inner.uploaded_at > inner.interval)
    IN IF locked THEN st
       ELSE IF io = "lock_err" \/ stat_failed THEN [st EXCEPT !.result = "Err"]
       ELSE IF is_time_to_upload(disabled, uploading_disabled, inner, st.buffered_file, t)
       THEN upload_with_retry(st, hs, hp, checks, t, outcomes, inner.tries)
       ELSE st

\* a punish that also dots a punishment that does not freeze
punish_dots_every_punishment(result) == result # "NoPunishment"

\* HostSelector::punish calls dotter.punish() on PunishedAndFreezed only
punish_dots(result) == result = "PunishedAndFreezed"

\* the state HostSelector::punish leaves in the dotter
punish_dotter(result, io) ==
    IF punish_dots(result)
    THEN dotter_punish(dotting_disabled, dot_uploading_disabled, dotter_inner,
                       buffered_records, buffered_file, file_locked, upload_tasks, now, io)
    ELSE [buffered_records |-> buffered_records, buffered_file |-> buffered_file,
          upload_tasks |-> upload_tasks, merged |-> buffered_records]

punish(host, error, io) ==
    LET result == punish_result(host_punisher, hosts_map, host, error, now)
        dotted == punish_dotter(result, io)
    IN /\ hosts_map' = punish_map(host_punisher, hosts_map, host, error, now)
       /\ buffered_records' = dotted.buffered_records
       /\ buffered_file' = dotted.buffered_file
       /\ upload_tasks' = dotted.upload_tasks
       /\ UNCHANGED <<hosts, index, current_timeout_power, host_punisher, overflow_checks>>
       /\ UNCHANGED <<now, task_vars>>
       /\ UNCHANGED <<dotting_disabled, dot_uploading_disabled, dotter_inner, file_locked>>
       /\ UNCHANGED upload_vars

\* disable_dotting / enable_dotting
set_dotting_disabled(disabled) ==
    /\ dotting_disabled' = disabled
    /\ UNCHANGED <<selector_vars, now, task_vars>>
    /\ UNCHANGED <<dot_uploading_disabled, dotter_inner, buffered_records, buffered_file,
                   file_locked, upload_tasks, upload_vars>>

----------------------------------------------------------------------------
(* Initial states *)

Idle == [pc |-> "idle"]
NoCall == [op |-> "none"]

\* no RangeReaderHandle was built
InitNoBridge ==
    /\ clients = <<>>
    /\ request_channel = <<>>
    /\ oneshots = <<>>
    /\ worker = <<>>
    /\ inner_drop = <<>>

\* HostSelectorBuilder::build with the settings of tests::test_hosts_selector
TestPunisher ==
    [should_punish_func |-> None,
     punish_duration |-> 1,
     base_timeout |-> 100,
     max_punished_times |-> 2,
     max_punished_hosts_percent |-> 50]

\* HostsUpdater::new(hosts, None): every host with the default state
InitHosts(hs, hp) ==
    /\ hosts = hs
    /\ hosts_map = [h \in Range(hs) |-> DefaultPunishedInfo]
    /\ index = 0
    /\ current_timeout_power = 0
    /\ host_punisher = hp
    /\ now = 0
    /\ sel = Idle
    /\ upd = Idle
    /\ update_option = None
    /\ refreshers = <<>>
    /\ START_TIME = 0
    /\ last = NoCall

InitSelector(hs, hp) ==
    /\ InitHosts(hs, hp)
    /\ InitNoBridge

\* the tasks that may be inside Dotter::dot or Dotter::punish at one time
CallerIds == {"c1", "c2"}

\* the history of a dotter nothing was merged into: the calls of dot and
\* punish that merged, the merges by outcome and key, those of them the map
\* holds, those the lines of the file hold, and the time of the last upload
\* the monitor answered 200 to
NoDots ==
    [calls |-> 0, merged |-> <<>>, pending |-> <<>>, flushed |-> <<>>, last_upload |-> None,
     elapsed |-> <<>>]

\* no task is inside the dotter, nothing was merged, the monitor heard nothing
InitNoUpload ==
    /\ records_map = <<>>
    /\ callers = [c \in CallerIds |-> Idle]
    /\ uploader = <<>>
    /\ section = {}
    /\ monitor = [requests |-> 0, accepted |-> <<>>]
    /\ dots_merged = NoDots

\* Dotter::default(): no inner, every call is a no-op
InitNoDotter ==
    /\ InitNoUpload
    /\ dotting_disabled = FALSE
    /\ dot_uploading_disabled = FALSE
    /\ dotter_inner = None
    /\ buffered_records = <<>>
    /\ buffered_file = <<>>
    /\ file_locked = FALSE
    /\ upload_tasks = 0

\* the monotonic clock advances; what `last` says of the call before is dropped
Tick ==
    /\ now < MaxTime
    /\ now' = now + 1
    /\ last' = NoCall
    /\ UNCHANGED <<selector_vars, task_vars, dotter_vars>>

\* a caller punishes a host only while it is punished fewer than cap times in a row
PunishedBelow(host, cap) ==
    host \in DOMAIN hosts_map => hosts_map[host].continuous_punished_times < cap

\* the calls that update one host's entry, made by another caller; `last` drops them
Calls(H, cap, max_power) ==
    /\ last' = NoCall
    /\ \E host \in H :
        \/ reward(host)
        \/ \E error \in Errors : PunishedBelow(host, cap) /\ punish_without_dotter(host, error)
        \/ \E p \in 0..max_power : increase_timeout_power_by(host, p)
        \/ mark_connection_as_failed(host)

----------------------------------------------------------------------------
(* SpecRegistry: the calls that update the registry, one at a time, on a   *)
(* registered host (h1) and on one the registry does not hold (h2); `last` *)
(* keeps the call, the entry of its host before it and its result          *)

Entry(map, host) == IF host \in DOMAIN map THEN Some(map[host]) ELSE None

RegistryHosts == {"h1", "h2"}

Reward ==
    \E host \in RegistryHosts :
        /\ reward(host)
        /\ last' = [op |-> "reward", host |-> host, pre |-> Entry(hosts_map, host)]

PunishWithoutDotter ==
    \E host \in RegistryHosts, error \in Errors :
        /\ PunishedBelow(host, MaxPunishCount)
        /\ punish_without_dotter(host, error)
        /\ last' = [op |-> "punish_without_dotter", host |-> host, error |-> error,
                    pre |-> Entry(hosts_map, host),
                    result |-> punish_result(host_punisher, hosts_map, host, error, now)]

IncreaseTimeoutPowerBy ==
    \E host \in RegistryHosts, p \in 0..MaxPowerArg :
        /\ increase_timeout_power_by(host, p)
        /\ last' = [op |-> "increase_timeout_power_by", host |-> host, timeout_power |-> p,
                    pre |-> Entry(hosts_map, host)]

MarkConnectionAsFailed ==
    \E host \in RegistryHosts :
        /\ mark_connection_as_failed(host)
        /\ last' = [op |-> "mark_connection_as_failed", host |-> host,
                    pre |-> Entry(hosts_map, host)]

InitRegistry ==
    /\ \E spf \in {None, Some({"timeout"})} :
           InitSelector(<<"h1">>, [TestPunisher EXCEPT !.should_punish_func = spf])
    /\ overflow_checks = FALSE
    /\ InitNoDotter

NextRegistry ==
    \/ Reward
    \/ PunishWithoutDotter
    \/ IncreaseTimeoutPowerBy
    \/ MarkConnectionAsFailed
    \/ Tick

SpecRegistry == InitRegistry /\ [][NextRegistry]_vars

\* C1: after reward(h) on a registered host h, continuous_punished_times = 0,
\* failed_to_connect = false and timeout_power = max(0, old timeout_power - 1)
C1_RewardResets ==
    (last.op = "reward" /\ IsSome(last.pre)) =>
        LET old == Unwrap(last.pre)
            new == hosts_map[last.host]
        IN /\ new.continuous_punished_times = 0
           /\ new.failed_to_connect = FALSE
           /\ new.timeout_power = Max(0, old.timeout_power - 1)

\* a punished host that failed to connect, with timeout_power 0, was rewarded
C1_Witness ==
    /\ last.op = "reward"
    /\ IsSome(last.pre)
    /\ Unwrap(last.pre).timeout_power = 0
    /\ Unwrap(last.pre).continuous_punished_times > 0
    /\ Unwrap(last.pre).failed_to_connect
    /\ hosts_map[last.host].timeout_power = 0

\* C5: punish_without_dotter on a registered host returns NoPunishment and
\* changes nothing when should_punish(err) is false; otherwise it adds 1 to
\* continuous_punished_times, sets last_punished_at to now, and returns
\* Punished when the new count <= max_punished_times, else PunishedAndFreezed
C5_PunishWithoutDotter ==
    (last.op = "punish_without_dotter" /\ IsSome(last.pre)) =>
        LET old == Unwrap(last.pre)
            new == hosts_map[last.host]
            punishable == \/ host_punisher.should_punish_func = None
                          \/ last.error \in Unwrap(host_punisher.should_punish_func)
        IN IF ~punishable
           THEN last.result = "NoPunishment" /\ new = old
           ELSE /\ new.continuous_punished_times = old.continuous_punished_times + 1
                /\ new.last_punished_at = Some(now)
                /\ last.result =
                       IF new.continuous_punished_times <= host_punisher.max_punished_times
                       THEN "Punished"
                       ELSE "PunishedAndFreezed"

\* with max_punished_times = 2, the third punishment in a row freezes the host
C5_Witness ==
    /\ last.op = "punish_without_dotter"
    /\ IsSome(last.pre)
    /\ host_punisher.max_punished_times = 2
    /\ Unwrap(last.pre).continuous_punished_times = 2
    /\ hosts_map[last.host].continuous_punished_times = 3
    /\ last.result = "PunishedAndFreezed"

----------------------------------------------------------------------------
(* SpecSetHosts: set_hosts, run alone from its first step to its last,     *)
(* between calls that punish the hosts h1 and h2                           *)

\* x occurs as often in a as in b
SameElements(a, b) ==
    /\ Len(a) = Len(b)
    /\ \A x \in Range(a) \cup Range(b) :
           Cardinality({i \in 1..Len(a) : a[i] = x}) = Cardinality({i \in 1..Len(b) : b[i] = x})

SetHosts ==
    \E new_hosts \in SeqsUpTo(Hosts, MaxNewHosts) :
        \E shuffled \in Shuffles(new_hosts) :
            /\ set_hosts(new_hosts, shuffled)
            /\ last' = [op |-> "set_hosts", new_hosts |-> new_hosts,
                        pre_keys |-> DOMAIN hosts_map,
                        pre_punished |-> {h \in DOMAIN hosts_map : hosts_map[h] # DefaultPunishedInfo}]

InitSetHosts ==
    /\ InitSelector(<<"h1", "h2">>, [TestPunisher EXCEPT !.max_punished_times = 0])
    /\ overflow_checks = FALSE
    /\ InitNoDotter

NextSetHosts ==
    \/ Calls(RegistryHosts, host_punisher.max_punished_times + 1, MaxQuietPowerArg)
    \/ SetHosts

SpecSetHosts == InitSetHosts /\ [][NextSetHosts]_vars

\* C9: after set_hosts(new) run alone, the host sequence is a permutation of
\* new, the keys of the health map are exactly the hosts of new, and every
\* one of them, kept or added, has the default state
C9_SetHostsReplaces ==
    last.op = "set_hosts" =>
        /\ SameElements(hosts, last.new_hosts)
        /\ DOMAIN hosts_map = Range(last.new_hosts)
        /\ \A h \in Range(last.new_hosts) :
               /\ hosts_map[h].last_punished_at = None
               /\ hosts_map[h].continuous_punished_times = 0
               /\ hosts_map[h].timeout_power = 0
               /\ hosts_map[h].failed_to_connect = FALSE

\* one set_hosts kept a punished host, dropped a host and added a host
C9_Witness ==
    /\ last.op = "set_hosts"
    /\ \E kept \in last.pre_punished : kept \in Range(last.new_hosts)
    /\ \E dropped \in last.pre_keys : dropped \notin DOMAIN hosts_map
    /\ \E added \in DOMAIN hosts_map : added \notin last.pre_keys
    /\ hosts # last.new_hosts

----------------------------------------------------------------------------
(* SpecSelect: select_host, run alone, between calls that punish and       *)
(* reward the hosts h1 and h2                                              *)

SelectHost ==
    \E tried \in SUBSET Hosts :
        LET run == select_host_run(hosts, hosts_map, host_punisher, overflow_checks,
                                   current_timeout_power, index, now, tried)
        IN /\ select_host(tried)
           /\ last' = [op |-> "select_host", tried |-> tried, from |-> index,
                       panicked |-> run.panicked, result |-> run.result]

\* three hosts under the punisher of tests::test_hosts_selector, which keeps the
\* default max_punished_hosts_percent of 50, with max_punished_times = 0
InitSelect ==
    /\ InitSelector(<<"h1", "h2", "h3">>, [TestPunisher EXCEPT !.max_punished_times = 0])
    /\ overflow_checks = FALSE
    /\ InitNoDotter

NextSelect ==
    \/ Calls(RegistryHosts, host_punisher.max_punished_times + 1, MaxQuietPowerArg)
    \/ SelectHost
    \/ Tick

SpecSelect == InitSelect /\ [][NextSelect]_vars

\* the hosts of the sequence that are available (is_available(state, false))
AvailableHosts ==
    {h \in Range(hosts) \cap DOMAIN hosts_map : is_available(host_punisher, hosts_map[h], FALSE)}

\* C2: select_host with an empty tried set, on a non-empty sequence that holds
\* at least one available host, returns Some host
C2_SelectReturnsSome ==
    (last.op = "select_host" /\ last.tried = {} /\ Len(hosts) > 0 /\ AvailableHosts # {}) =>
        IsSome(last.result)

\* select_host({}) found both hosts it probed unsatisfying, one of them frozen,
\* and returned one of them as the least bad candidate
C2_Witness ==
    /\ last.op = "select_host"
    /\ last.tried = {}
    /\ AvailableHosts # {}
    /\ AvailableHosts # Range(hosts)
    /\ (index - last.from) % UsizeModulus = 2
    /\ IsSome(last.result)
    /\ ~is_punishment_expired(host_punisher, hosts_map[Unwrap(last.result).host], now)
    /\ ~is_satisfied_with(host_punisher, hosts_map[Unwrap(last.result).host], current_timeout_power)

\* C3: the host select_host(tried) returns is never in tried, and when every
\* host of the sequence is in tried it returns None
C3_SelectSkipsTried ==
    last.op = "select_host" =>
        /\ IsSome(last.result) => Unwrap(last.result).host \notin last.tried
        /\ Range(hosts) \subseteq last.tried => last.result = None

\* select_host probed a host of tried first and returned another host
C3_Witness ==
    /\ last.op = "select_host"
    /\ hosts[(last.from % Len(hosts)) + 1] \in last.tried
    /\ IsSome(last.result)
    /\ Unwrap(last.result).host \notin last.tried

\* C4: when a host of the sequence is outside tried, select_host(tried)
\* returns Some host outside tried
C4_SelectFindsUntried ==
    (last.op = "select_host" /\ ~(Range(hosts) \subseteq last.tried)) =>
        /\ IsSome(last.result)
        /\ Unwrap(last.result).host \notin last.tried

----------------------------------------------------------------------------
(* SpecTimeout: one host whose requests time out again and again, each     *)
(* timeout escalating its timeout_power as DotterInner::do_upload does,    *)
(* and select_host handing out the timeout computed from it                *)

\* dot.rs: increase_timeout_power_by(host_info.host(), host_info.timeout_power())
\* after select_host returned the host with its stored timeout_power
TimeoutEscalates ==
    /\ last.op = "select_host"
    /\ IsSome(last.result)
    /\ LET host_info == Unwrap(last.result)
       IN /\ hosts_map[host_info.host].timeout_power < MaxTimeoutPower
          /\ increase_timeout_power_by(host_info.host, host_info.timeout_power)
    /\ last' = NoCall

RewardAfterSelect ==
    /\ last.op = "select_host"
    /\ IsSome(last.result)
    /\ reward(Unwrap(last.result).host)
    /\ last' = NoCall

InitTimeout ==
    /\ \E base \in {100, 1000, 3000} :
           InitSelector(<<"h1">>, [TestPunisher EXCEPT !.base_timeout = base])
    /\ overflow_checks \in BOOLEAN
    /\ InitNoDotter

NextTimeout ==
    \/ SelectHost
    \/ TimeoutEscalates
    \/ RewardAfterSelect

SpecTimeout == InitTimeout /\ [][NextTimeout]_vars

\* C8: the timeout handed out for a host with an unexpired punishment is
\* min(base_timeout * 2^timeout_power, 600 s) for every timeout_power reached,
\* with no panic and no wrap-around of the factor 2^timeout_power
C8_TimeoutIsCapped ==
    last.op = "select_host" =>
        /\ ~last.panicked
        /\ \A host \in Range(hosts) \ last.tried :
               ~is_punishment_expired(host_punisher, hosts_map[host], now) =>
                   /\ IsSome(last.result)
                   /\ Unwrap(last.result).timeout =
                          MulPow2Capped(host_punisher.base_timeout,
                                        hosts_map[host].timeout_power, MaxTimeoutMs)

----------------------------------------------------------------------------
(* SpecConc: one task inside select_host and one inside set_hosts, each    *)
(* advancing from one await to the next.  select_host holds the read lock  *)
(* of `hosts` from its first line to its return; set_hosts touches the map *)
(* entry by entry, then retains, and takes the write lock only for its     *)
(* last assignment.                                                        *)

\* let hosts = self.hosts_updater.hosts.read().await: a fair lock, so a reader
\* queues behind a writer that is already waiting
SelectAcquire ==
    /\ sel.pc = "idle"
    /\ upd.pc # "write_waiting"
    /\ \E tried \in SUBSET RegistryHosts :
           sel' = [pc |-> "loop", tried |-> tried, from |-> index,
                   turns |-> max_seek_times(host_punisher, Len(hosts)) + 1,
                   st |-> SelectStart(index)]
    /\ last' = NoCall
    /\ UNCHANGED <<selector_vars, now, upd, bridge_vars, refresh_vars, START_TIME, dotter_vars>>

\* one turn of the loop: next_index() on the shared counter, then read_async
SelectTurn ==
    /\ sel.pc = "loop"
    /\ sel.turns > 0
    /\ ~sel.st.broke
    /\ ~sel.st.panicked
    /\ LET st == SelectProbe(hosts, hosts_map, host_punisher, overflow_checks,
                             current_timeout_power, now, sel.tried,
                             [sel.st EXCEPT !.index = index])
       IN /\ sel' = [sel EXCEPT !.st = st, !.turns = @ - 1]
          /\ index' = st.index
    /\ last' = NoCall
    /\ UNCHANGED <<hosts, hosts_map, current_timeout_power, host_punisher, overflow_checks>>
    /\ UNCHANGED <<now, upd, bridge_vars, refresh_vars, START_TIME, dotter_vars>>

\* the loop is over: the result is built, the read lock is dropped
SelectReturn ==
    /\ sel.pc = "loop"
    /\ sel.turns = 0 \/ sel.st.broke \/ sel.st.panicked
    /\ LET panicked == sel.st.panicked
                         \/ SelectFinishPanics(host_punisher, overflow_checks, now, sel.st)
           result == IF panicked THEN None ELSE SelectFinish(host_punisher, now, sel.st)
       IN /\ current_timeout_power' = store_timeout_power(current_timeout_power, result)
          /\ last' = [op |-> "select_host", tried |-> sel.tried, from |-> sel.from,
                      panicked |-> panicked, result |-> result, hosts |-> hosts,
                      chosen |-> sel.st.chosen, candidates |-> sel.st.candidates]
    /\ sel' = Idle
    /\ UNCHANGED <<hosts, hosts_map, index, host_punisher, overflow_checks>>
    /\ UNCHANGED <<now, upd, bridge_vars, refresh_vars, START_TIME, dotter_vars>>

\* update_hosts hands set_hosts the non-empty list its callback returned
SetHostsCalled ==
    /\ upd.pc = "idle"
    /\ \E new_hosts \in SeqsUpTo(Hosts, MaxNewHosts) \ {<<>>} :
           upd' = [pc |-> "entries", new_hosts |-> new_hosts, done |-> 0]
    /\ last' = NoCall
    /\ UNCHANGED <<selector_vars, now, sel, bridge_vars, refresh_vars, START_TIME, dotter_vars>>

\* one turn of `for host in hosts.iter()`: entry_async(host).await ... or_default()
SetHostsEntry ==
    /\ upd.pc = "entries"
    /\ upd.done < Len(upd.new_hosts)
    /\ hosts_map' = entry_or_default(hosts_map, upd.new_hosts[upd.done + 1])
    /\ upd' = [upd EXCEPT !.done = @ + 1]
    /\ last' = NoCall
    /\ UNCHANGED <<hosts, index, current_timeout_power, host_punisher, overflow_checks>>
    /\ UNCHANGED <<now, sel, bridge_vars, refresh_vars, START_TIME, dotter_vars>>

\* retain_async(..).await, then hosts.shuffle(..)
SetHostsRetain ==
    /\ upd.pc = "entries"
    /\ upd.done = Len(upd.new_hosts)
    /\ hosts_map' = retain(hosts_map, Range(upd.new_hosts))
    /\ \E shuffled \in Shuffles(upd.new_hosts) :
           upd' = [pc |-> "write", new_hosts |-> shuffled, done |-> upd.done]
    /\ last' = NoCall
    /\ UNCHANGED <<hosts, index, current_timeout_power, host_punisher, overflow_checks>>
    /\ UNCHANGED <<now, sel, bridge_vars, refresh_vars, START_TIME, dotter_vars>>

\* *self.hosts.write().await = hosts: at once when no reader holds the lock,
\* otherwise the writer waits in the queue of the lock
SetHostsWrite ==
    /\ upd.pc = "write"
    /\ IF sel.pc = "idle"
       THEN hosts' = upd.new_hosts /\ upd' = Idle
       ELSE hosts' = hosts /\ upd' = [upd EXCEPT !.pc = "write_waiting"]
    /\ last' = NoCall
    /\ UNCHANGED <<hosts_map, index, current_timeout_power, host_punisher, overflow_checks>>
    /\ UNCHANGED <<now, sel, bridge_vars, refresh_vars, START_TIME, dotter_vars>>

SetHostsWriteGranted ==
    /\ upd.pc = "write_waiting"
    /\ sel.pc = "idle"
    /\ hosts' = upd.new_hosts
    /\ upd' = Idle
    /\ last' = NoCall
    /\ UNCHANGED <<hosts_map, index, current_timeout_power, host_punisher, overflow_checks>>
    /\ UNCHANGED <<now, sel, bridge_vars, refresh_vars, START_TIME, dotter_vars>>

InitConc ==
    /\ InitSelector(<<"h1", "h2">>, TestPunisher)
    /\ overflow_checks = FALSE
    /\ InitNoDotter

NextConc ==
    \/ SelectAcquire
    \/ SelectTurn
    \/ SelectReturn
    \/ SetHostsCalled
    \/ SetHostsEntry
    \/ SetHostsRetain
    \/ SetHostsWrite
    \/ SetHostsWriteGranted

SpecConc == InitConc /\ [][NextConc]_vars

\* C10: set_hosts is atomic for a concurrent select_host: while select_host
\* holds the sequence every host of it has its map entry, and select_host({})
\* over a non-empty sequence returns Some
C10_SetHostsAtomic ==
    /\ sel.pc = "loop" => Range(hosts) \subseteq DOMAIN hosts_map
    /\ (last.op = "select_host" /\ last.tried = {} /\ Len(last.hosts) > 0) =>
           IsSome(last.result)

----------------------------------------------------------------------------
(* SpecPunish: punish with a dotter, one call at a time, on a registered   *)
(* host (h1) and on one the registry does not hold (h2), while another     *)
(* process takes and drops the advisory lock of the dot file.  The upload  *)
(* tasks punish spawns are counted, not run.                               *)

\* the PunishedCount the records in memory hold
PunishedInMemory(records) ==
    IF <<"PunishedCount">> \in DOMAIN records
    THEN records[<<"PunishedCount">>].punished_count ELSE 0

\* the PunishedCount the lines of the file add up to
RECURSIVE PunishedInFile(_)
PunishedInFile(file) ==
    IF Len(file) = 0 THEN 0
    ELSE (IF "punished_count" \in DOMAIN Head(file) THEN Head(file).punished_count ELSE 0)
             + PunishedInFile(Tail(file))

PunishedTotal(records, file) == PunishedInMemory(records) + PunishedInFile(file)

Punish ==
    \E host \in RegistryHosts, error \in Errors, io \in IoOutcomes :
        /\ PunishedBelow(host, MaxPunishCount)
        /\ PunishedTotal(buffered_records, buffered_file) < MaxDots
        /\ upload_tasks < MaxDots
        /\ punish(host, error, io)
        /\ last' = [op |-> "punish", host |-> host, error |-> error, io |-> io,
                    locked |-> file_locked,
                    result |-> punish_result(host_punisher, hosts_map, host, error, now),
                    pre |-> [buffered_records |-> buffered_records,
                             buffered_file |-> buffered_file,
                             upload_tasks |-> upload_tasks],
                    merged |-> punish_dotter(
                                   punish_result(host_punisher, hosts_map, host, error, now),
                                   io).merged]

RewardQuiet ==
    /\ \E host \in RegistryHosts : reward(host)
    /\ last' = NoCall

SetDottingDisabled ==
    /\ \E disabled \in BOOLEAN : set_dotting_disabled(disabled)
    /\ last' = NoCall

\* another process takes or drops the advisory lock
OtherProcessLocks ==
    /\ file_locked' = ~file_locked
    /\ last' = NoCall
    /\ UNCHANGED <<selector_vars, now, task_vars>>
    /\ UNCHANGED <<dotting_disabled, dot_uploading_disabled, dotter_inner, buffered_records,
                   buffered_file, upload_tasks, upload_vars>>

\* Dotter::new with monitor urls (an inner, created at tick 0) or without
InitPunish ==
    /\ InitSelector(<<"h1">>, [TestPunisher EXCEPT !.should_punish_func = Some({"timeout"})])
    /\ overflow_checks = FALSE
    /\ dotting_disabled = FALSE
    /\ InitNoUpload
    /\ dot_uploading_disabled \in BOOLEAN
    /\ dotter_inner \in {None,
                         Some([interval |-> 0, max_buffer_size |-> 1048576, uploaded_at |-> 0]),
                         Some([interval |-> 10, max_buffer_size |-> 21, uploaded_at |-> 0])}
    /\ buffered_records = <<>>
    /\ buffered_file = <<>>
    /\ file_locked = FALSE
    /\ upload_tasks = 0

NextPunish ==
    \/ Punish
    \/ RewardQuiet
    \/ SetDottingDisabled
    \/ OtherProcessLocks
    \/ Tick

SpecPunish == InitPunish /\ [][NextPunish]_vars

\* C6: with an active dotter and dotting enabled, punish(host, err, dotter)
\* merges exactly one PunishedCount increment into the dotter when its result
\* is PunishedAndFreezed, and the increment is then in memory or in the file
\* unless the flush of the file failed; on Punished and NoPunishment the
\* dotter is left as it was
C6_PunishDotsFreezes ==
    (last.op = "punish" /\ IsSome(dotter_inner) /\ ~dotting_disabled) =>
        IF last.result = "PunishedAndFreezed"
        THEN /\ PunishedInMemory(last.merged)
                    = PunishedInMemory(last.pre.buffered_records) + 1
             /\ last.io # "flush_err" =>
                    PunishedTotal(buffered_records, buffered_file)
                        = PunishedTotal(last.pre.buffered_records, last.pre.buffered_file) + 1
        ELSE /\ last.merged = last.pre.buffered_records
             /\ buffered_records = last.pre.buffered_records
             /\ buffered_file = last.pre.buffered_file
             /\ upload_tasks = last.pre.upload_tasks

\* a third punishment in a row froze h1 and its increment is in the file
C6_Witness ==
    /\ last.op = "punish"
    /\ IsSome(dotter_inner)
    /\ ~dotting_disabled
    /\ last.result = "PunishedAndFreezed"
    /\ hosts_map[last.host].continuous_punished_times = host_punisher.max_punished_times + 1
    /\ PunishedInFile(buffered_file) = PunishedInFile(last.pre.buffered_file) + 1
    /\ PunishedInMemory(buffered_records) = 0
    /\ upload_tasks = last.pre.upload_tasks + 1

----------------------------------------------------------------------------
(* SpecMerge: records are merged one at a time into an AsyncDotRecordsMap  *)
(* (buffered_records) and into a DotRecordsMap (records_map); `last` keeps *)
(* the record and the two maps before the merge                            *)

\* the elapsed milliseconds a record may carry
MergeDurations == {0, 3, 4}

\* the keys of the APICalls records that are merged
MergeKeys == {<<"sdk", "io_getfile">>}

\* the records that may be merged: what fast_dot and fast_punish build, and the
\* lines of a buffered file with more than one call in them
MergeRecords ==
    {PunishedRecord} \cup
    {DotRecordNew(k[1], k[2], sc, fc, sa, fa) :
        k \in MergeKeys, sc \in 0..MaxMergeCount, fc \in 0..MaxMergeCount,
        sa \in MergeDurations, fa \in MergeDurations}

\* the calls a record stands for
RecordCalls(record) ==
    IF record.type = "APICalls" THEN record.success_count + record.failed_count
    ELSE record.punished_count

RECURSIVE MapCalls(_)
MapCalls(map) ==
    IF DOMAIN map = {} THEN 0
    ELSE LET k == CHOOSE k \in DOMAIN map : TRUE
         IN RecordCalls(map[k]) + MapCalls([j \in DOMAIN map \ {k} |-> map[j]])

MergeWithRecord ==
    \E record \in MergeRecords :
        /\ MapCalls(buffered_records) + RecordCalls(record) <= MaxMergedCalls
        /\ buffered_records' = merge_with_record(buffered_records, record)
        /\ records_map' = DotRecordsMap_merge_with_record(records_map, record)
        /\ last' = [op |-> "merge_with_record", record |-> record,
                    pre |-> [buffered_records |-> buffered_records,
                             records_map |-> records_map]]
        /\ UNCHANGED <<selector_vars, now, task_vars>>
        /\ UNCHANGED <<dotting_disabled, dot_uploading_disabled, dotter_inner, buffered_file,
                       file_locked, upload_tasks>>
        /\ UNCHANGED <<callers, uploader, section, monitor, dots_merged>>

InitMerge ==
    /\ InitSelector(<<"h1">>, TestPunisher)
    /\ overflow_checks = FALSE
    /\ InitNoDotter

NextMerge == MergeWithRecord

SpecMerge == InitMerge /\ [][NextMerge]_vars

\* the average the merge of r and d leaves: floor((r.avg * r.count + d.avg *
\* d.count) / count) when the new count is positive, else 0
MergedAvg(r_avg, r_count, d_avg, d_count) ==
    IF r_count + d_count > 0
    THEN (r_avg * r_count + d_avg * d_count) \div (r_count + d_count)
    ELSE 0

\* what the merge law says of the entry r and the record d of the same key
MergeLaw(r, d) ==
    IF d.type = "APICalls"
    THEN [type |-> "APICalls",
          dot_type |-> r.dot_type,
          api_name |-> r.api_name,
          success_count |-> r.success_count + d.success_count,
          success_avg_elapsed_duration |->
              MergedAvg(r.success_avg_elapsed_duration, r.success_count,
                        d.success_avg_elapsed_duration, d.success_count),
          failed_count |-> r.failed_count + d.failed_count,
          failed_avg_elapsed_duration |->
              MergedAvg(r.failed_avg_elapsed_duration, r.failed_count,
                        d.failed_avg_elapsed_duration, d.failed_count)]
    ELSE [type |-> "PunishedCount", punished_count |-> r.punished_count + d.punished_count]

\* C11: merging a record d into an entry r of the same key adds the counts and
\* leaves the count-weighted floor average of each kind (0 when the new count
\* is 0), PunishedCount records add their counts, a record of an absent key is
\* inserted unchanged, the other entries stay, and the DotRecordsMap and the
\* AsyncDotRecordsMap hold the same entries after every sequence of merges
C11_MergeLaw ==
    /\ buffered_records = records_map
    /\ last.op = "merge_with_record" =>
           LET d == last.record
               k == RecordKey(d)
               pre == last.pre.buffered_records
           IN /\ DOMAIN buffered_records = DOMAIN pre \cup {k}
              /\ \A j \in DOMAIN pre \ {k} : buffered_records[j] = pre[j]
              /\ buffered_records[k] = IF k \in DOMAIN pre THEN MergeLaw(pre[k], d) ELSE d

\* an APICalls record of two calls was merged into an entry of one call with
\* another average, and the floor of the weighted average differs from the
\* floor of the plain one
C11_Witness ==
    /\ last.op = "merge_with_record"
    /\ last.record.type = "APICalls"
    /\ RecordKey(last.record) \in DOMAIN last.pre.buffered_records
    /\ LET r == last.pre.buffered_records[RecordKey(last.record)]
       IN /\ r.success_count = 1
          /\ last.record.success_count = 2
          /\ r.success_avg_elapsed_duration = 0
          /\ last.record.success_avg_elapsed_duration = 4
          /\ buffered_records[RecordKey(last.record)].success_avg_elapsed_duration = 2
    /\ <<"PunishedCount">> \in DOMAIN records_map

----------------------------------------------------------------------------
(* SpecUpload: one task calls Dotter::dot and Dotter::punish, and the tasks *)
(* async_upload spawned run one at a time; the selector variables are the   *)
(* monitor_selector of the dotter.  `last` keeps the call, what it met and  *)
(* the dotter before it                                                      *)

\* a toggle that is never read as set
is_dotting_disabled_never == FALSE

\* is_dotting_disabled(): DOTTING_DISABLED.load(Relaxed)
is_dotting_disabled == dotting_disabled

\* a constructor that does not look at the monitor urls
DotterNew_without_urls(monitor_urls, opened, interval, max_buffer_size, tries, t) ==
    IF opened
    THEN Some([interval |-> interval, max_buffer_size |-> max_buffer_size,
               uploaded_at |-> t, tries |-> tries])
    ELSE None

\* Dotter::new: an inner when the monitor urls are not empty and the file
\* could be opened
DotterNew(monitor_urls, opened, interval, max_buffer_size, tries, t) ==
    IF Len(monitor_urls) > 0 /\ opened
    THEN Some([interval |-> interval, max_buffer_size |-> max_buffer_size,
               uploaded_at |-> t, tries |-> tries])
    ELSE None

\* the keys the caller dots
DotKeys == {<<"sdk", "io_getfile">>, <<"http", "io_getfile">>}

\* the name a merge has in the history: the key and the outcome of the call
CallLabel(record) ==
    IF record.type = "APICalls"
    THEN <<record.dot_type, record.api_name, record.success_count = 1>>
    ELSE <<"PunishedCount">>

CountOf(counts, x) == IF x \in DOMAIN counts THEN counts[x] ELSE 0

AddCounts(a, b) == [x \in DOMAIN a \cup DOMAIN b |-> CountOf(a, x) + CountOf(b, x)]

\* the elapsed milliseconds of the call a record stands for
CallElapsed(record) ==
    IF record.type = "APICalls"
    THEN record.success_avg_elapsed_duration + record.failed_avg_elapsed_duration
    ELSE 0

\* the history after a call of dot or punish that met io
HistoryOfCall(history, record, active, locked, io) ==
    IF ~active THEN history
    ELSE LET merged == [history EXCEPT
                           !.calls = @ + 1,
                           !.elapsed = AddCounts(@, CallLabel(record) :> CallElapsed(record)),
                           !.merged = AddCounts(@, CallLabel(record) :> 1),
                           !.pending = AddCounts(@, CallLabel(record) :> 1)]
         IN IF locked \/ io \in {"lock_err", "write_err"} THEN merged
            ELSE [merged EXCEPT
                     !.pending = <<>>,
                     !.flushed = IF io = "flush_err" THEN @ ELSE AddCounts(@, merged.pending)]

\* the merges the attempts of one upload made
RECURSIVE AttemptCounts(_)
AttemptCounts(attempts) ==
    IF Len(attempts) = 0 THEN <<>>
    ELSE LET a == Head(attempts)
         IN AddCounts(AddCounts(IF PostSent(a.outcome)
                                THEN <<"http", "monitor_v1_stat", PostAccepted(a.outcome)>> :> 1
                                ELSE <<>>,
                                IF a.told = "PunishedAndFreezed"
                                THEN <<"PunishedCount">> :> 1 ELSE <<>>),
                      AttemptCounts(Tail(attempts)))

\* the history after an upload task
HistoryOfUpload(history, done, t) ==
    LET emptied == \E i \in 1..Len(done.attempts) : done.attempts[i].outcome = "ok"
    IN [history EXCEPT
           !.merged = AddCounts(@, AttemptCounts(done.attempts)),
           !.pending = AddCounts(@, AttemptCounts(done.attempts)),
           !.flushed = IF emptied THEN <<>> ELSE @,
           !.last_upload = IF \E i \in 1..Len(done.attempts) :
                                   PostAccepted(done.attempts[i].outcome)
                           THEN Some(t) ELSE @]

\* what `last` keeps of the dotter before a call
DotterBefore ==
    [buffered_records |-> buffered_records, buffered_file |-> buffered_file,
     upload_tasks |-> upload_tasks, monitor |-> monitor, history |-> dots_merged,
     dotting_disabled |-> dotting_disabled,
     dot_uploading_disabled |-> dot_uploading_disabled,
     file_locked |-> file_locked]

\* a call of Dotter::dot or Dotter::punish with the record it merges
DotterCalled(op, record, io) ==
    \E done \in {dotter_call(record, is_dotting_disabled, dot_uploading_disabled,
                              dotter_inner, buffered_records, buffered_file, file_locked,
                              upload_tasks, now, io)} :
       /\ buffered_records' = done.buffered_records
       /\ buffered_file' = done.buffered_file
       /\ upload_tasks' = done.upload_tasks
       /\ dots_merged' = HistoryOfCall(dots_merged, record,
                                       ~is_dotting_disabled /\ IsSome(dotter_inner),
                                       file_locked, io)
       /\ last' = [op |-> op, record |-> record, io |-> io, result |-> done.result,
                   pre |-> DotterBefore]
       /\ UNCHANGED <<selector_vars, now, task_vars>>
       /\ UNCHANGED <<dotting_disabled, dot_uploading_disabled, dotter_inner, file_locked>>
       /\ UNCHANGED <<records_map, callers, uploader, section, monitor>>

\* Dotter::dot, called with a key of K and an outcome of Successful, and
\* meeting an outcome of Ios
DotCalled(K, Successful, Ios) ==
    /\ dots_merged.calls < MaxDots
    /\ \E k \in K, successful \in Successful, io \in Ios :
           DotterCalled("dot", fast_dot(k[1], k[2], successful, 0), io)

\* Dotter::punish, meeting an outcome of Ios
PunishCalled(Ios) ==
    /\ dots_merged.calls < MaxDots
    /\ \E io \in Ios : DotterCalled("punish", PunishedRecord, io)

\* one spawned task runs async_upload to its end, its critical section
\* meeting an outcome of Ios and its requests outcomes of Outcomes
UploadRuns(Ios, Outcomes) ==
    /\ upload_tasks > 0
    /\ monitor.requests < MaxRequests
    /\ \E io \in Ios, outcomes \in [1..Unwrap(dotter_inner).tries -> Outcomes] :
           \E done \in {async_upload(is_dotting_disabled, dot_uploading_disabled,
                                      Unwrap(dotter_inner),
                                      UploadStart(hosts_map, index, current_timeout_power,
                                                  buffered_records, buffered_file, monitor),
                                      hosts, host_punisher, overflow_checks, file_locked,
                                      now, io, outcomes)} :
              /\ upload_tasks' = upload_tasks - 1
              /\ hosts_map' = done.hosts_map
              /\ index' = done.index
              /\ current_timeout_power' = done.current_timeout_power
              /\ buffered_records' = done.buffered_records
              /\ buffered_file' = done.buffered_file
              /\ monitor' = done.monitor
              /\ dots_merged' = HistoryOfUpload(dots_merged, done, now)
              /\ last' = [op |-> "upload", io |-> io, result |-> done.result,
                          attempts |-> done.attempts, pre |-> DotterBefore]
              /\ UNCHANGED <<hosts, host_punisher, overflow_checks, now, task_vars>>
              /\ UNCHANGED <<dotting_disabled, dot_uploading_disabled, dotter_inner,
                             file_locked>>
              /\ UNCHANGED <<records_map, callers, uploader, section>>

\* disable_dot_uploading / enable_dot_uploading
SetDotUploadingDisabled ==
    /\ \E disabled \in BOOLEAN : dot_uploading_disabled' = disabled
    /\ last' = NoCall
    /\ UNCHANGED <<selector_vars, now, task_vars>>
    /\ UNCHANGED <<dotting_disabled, dotter_inner, buffered_records, buffered_file,
                   file_locked, upload_tasks, upload_vars>>

\* the settings Dotter::new is called with: the interval, max_buffer_size
DotterSettings == {<<0, 1048576>>, <<10, 100>>}

\* a dotter built by Dotter::new at tick 0, nothing merged yet
InitDotter(Urls, Opened, Settings) ==
    /\ \E monitor_urls \in Urls, opened \in Opened, settings \in Settings :
           /\ InitSelector(monitor_urls,
                           [TestPunisher EXCEPT !.max_punished_times = 0,
                                                !.base_timeout = 1000])
           /\ dotter_inner = DotterNew(monitor_urls, opened, settings[1], settings[2],
                                       Tries, 0)
    /\ overflow_checks = FALSE
    /\ InitNoUpload
    /\ dotting_disabled = FALSE
    /\ dot_uploading_disabled = FALSE
    /\ buffered_records = <<>>
    /\ buffered_file = <<>>
    /\ file_locked = FALSE
    /\ upload_tasks = 0

Dot == DotCalled(DotKeys, BOOLEAN, WriteOutcomes)

Upload == UploadRuns({"ok"}, AnsweredOutcomes)

\* the monotonic clock advances, up to MaxUploadTime
UploadTick ==
    /\ now < MaxUploadTime
    /\ now' = now + 1
    /\ last' = NoCall
    /\ UNCHANGED <<selector_vars, task_vars, dotter_vars>>

\* a dotter that uploads after one tick, and one that uploads a file of more
\* than 100 bytes
InitUpload == InitDotter({<<"h1">>}, {TRUE}, {<<1, 1048576>>, <<10, 100>>})

NextUpload ==
    \/ Dot
    \/ Upload
    \/ UploadTick

SpecUpload == InitUpload /\ [][NextUpload]_vars

\* the upload `last` keeps had a request the monitor answered 200 to
UploadAccepted ==
    /\ last.op = "upload"
    /\ \E i \in 1..Len(last.attempts) : PostAccepted(last.attempts[i].outcome)

\* the body of the last request the monitor answered 200 to
LastPayload == monitor.accepted[Len(monitor.accepted)]

\* C12: the body of an upload the monitor accepted holds each key at most
\* once, and the success_count and failed_count of a key (the punished_count
\* of PunishedCount) are the numbers of successful and failed calls merged
\* for that key whose records were flushed to the lines of the file
C12_PayloadCounts ==
    UploadAccepted =>
        LET flushed == last.pre.history.flushed
        IN /\ \A i, j \in 1..Len(LastPayload) :
                  RecordKey(LastPayload[i]) = RecordKey(LastPayload[j]) => i = j
           /\ \A i \in 1..Len(LastPayload) :
                  LET r == LastPayload[i]
                  IN IF r.type = "APICalls"
                     THEN /\ r.success_count
                                 = CountOf(flushed, <<r.dot_type, r.api_name, TRUE>>)
                          /\ r.failed_count
                                 = CountOf(flushed, <<r.dot_type, r.api_name, FALSE>>)
                     ELSE r.punished_count = CountOf(flushed, <<"PunishedCount">>)
           /\ \A x \in DOMAIN flushed :
                  flushed[x] > 0 =>
                      \E i \in 1..Len(LastPayload) :
                          RecordKey(LastPayload[i])
                              = (IF Len(x) = 1 THEN x ELSE <<x[1], x[2]>>)

\* two calls of one key were flushed to two lines of the file, and the body
\* the monitor accepted holds one record of two calls for that key
C12_Witness ==
    /\ UploadAccepted
    /\ Len(last.pre.buffered_file) = 2
    /\ Len(LastPayload) = 1
    /\ LastPayload[1].type = "APICalls"
    /\ LastPayload[1].success_count = 1
    /\ LastPayload[1].failed_count = 1

\* the time the trigger counts from: the last upload the monitor answered
\* 200 to, or the construction of the dotter before any
LastUploadBefore ==
    IF IsSome(last.pre.history.last_upload)
    THEN Unwrap(last.pre.history.last_upload)
    ELSE Unwrap(dotter_inner).uploaded_at

\* the trigger over the file: more than the interval has passed since the
\* last upload, or the file is larger than max_buffer_size
TriggerHolds(file) ==
    \/ now - LastUploadBefore > Unwrap(dotter_inner).interval
    \/ FileBytes(file) > Unwrap(dotter_inner).max_buffer_size

\* C18: a call spawns an upload task, and an upload task sends a request,
\* only when more than the interval has passed since the last upload or the
\* file is larger than max_buffer_size
C18_UploadTrigger ==
    /\ (last.op = "dot" /\ upload_tasks = last.pre.upload_tasks + 1) =>
           TriggerHolds(buffered_file)
    /\ (last.op = "upload" /\ Len(last.attempts) > 0) =>
           TriggerHolds(last.pre.buffered_file)

----------------------------------------------------------------------------
(* SpecFlush: the tasks of CallerIds call Dotter::dot at the same time and  *)
(* the spawned upload task runs beside them, one step for each await at     *)
(* which another task may run: the merge of fast_dot, try_lock and          *)
(* try_write, the scan of flush_to_file, its removals together with the     *)
(* flush of the lines, and every request of the upload                      *)

\* tokio::sync::Mutex::try_lock that does not look at the holder
try_lock_unfair(holders) == TRUE

\* tokio::sync::Mutex::try_lock: only a free mutex is taken
try_lock(holders) == holders = {}

\* the name of the upload task in `section`
UploadTask == "upload"

\* the calls a record stands for, by key and outcome
CountsOfRecord(record) ==
    IF record.type = "APICalls"
    THEN (<<record.dot_type, record.api_name, TRUE>> :> record.success_count)
             @@ (<<record.dot_type, record.api_name, FALSE>> :> record.failed_count)
    ELSE <<"PunishedCount">> :> record.punished_count

RECURSIVE CountsOfRecords(_)
CountsOfRecords(records) ==
    IF Len(records) = 0 THEN <<>>
    ELSE AddCounts(CountsOfRecord(Head(records)), CountsOfRecords(Tail(records)))

\* the calls the lines of the file stand for
CountsOfFile(file) == CountsOfRecords(make_request_body(file))

\* the calls the bodies the monitor accepted stand for
RECURSIVE CountsOfBodies(_)
CountsOfBodies(bodies) ==
    IF Len(bodies) = 0 THEN <<>>
    ELSE AddCounts(CountsOfRecords(Head(bodies)), CountsOfBodies(Tail(bodies)))

\* fast_dot inside Dotter::dot: the record is merged before the file is locked
DotMerges(c) ==
    /\ callers[c].pc = "idle"
    /\ dots_merged.calls < MaxDots
    /\ \E k \in {<<"sdk", "io_getfile">>}, successful \in BOOLEAN :
           /\ buffered_records'
                  = merge_with_record(buffered_records, fast_dot(k[1], k[2], successful, 0))
           /\ dots_merged' = [dots_merged EXCEPT
                                  !.calls = @ + 1,
                                  !.merged = AddCounts(@, <<k[1], k[2], successful>> :> 1)]
           /\ callers' = [callers EXCEPT
                              ![c] = [pc |-> "lock", dot |-> <<k[1], k[2], successful>>]]
    /\ last' = NoCall
    /\ UNCHANGED <<selector_vars, now, task_vars>>
    /\ UNCHANGED <<dotting_disabled, dot_uploading_disabled, dotter_inner, buffered_file,
                   file_locked, upload_tasks>>
    /\ UNCHANGED <<records_map, uploader, section, monitor>>

\* lock_buffered_file: try_lock on the mutex and try_write on the advisory
\* lock; the call returns Ok when either is held elsewhere, and the task is
\* idle again, `skipped` keeping the key and outcome of the record it merged
DotLocks(c) ==
    /\ callers[c].pc = "lock"
    /\ IF try_lock(section) /\ ~file_locked
       THEN /\ section' = section \cup {c}
            /\ callers' = [callers EXCEPT ![c] = [pc |-> "scan"]]
       ELSE /\ section' = section
            /\ callers' = [callers EXCEPT ![c] = [pc |-> "idle", skipped |-> callers[c].dot]]
    /\ last' = NoCall
    /\ UNCHANGED <<selector_vars, now, task_vars>>
    /\ UNCHANGED <<dotting_disabled, dot_uploading_disabled, dotter_inner, buffered_records,
                   buffered_file, file_locked, upload_tasks>>
    /\ UNCHANGED <<records_map, uploader, monitor, dots_merged>>

\* flush_to_file: scan_async clones every key and record of the map
FlushScans(c) ==
    /\ callers[c].pc = "scan"
    /\ callers' = [callers EXCEPT ![c] = [pc |-> "remove", scanned |-> buffered_records]]
    /\ last' = NoCall
    /\ UNCHANGED <<selector_vars, now, task_vars>>
    /\ UNCHANGED <<dotting_disabled, dot_uploading_disabled, dotter_inner, buffered_records,
                   buffered_file, file_locked, upload_tasks>>
    /\ UNCHANGED <<records_map, uploader, section, monitor, dots_merged>>

\* flush_to_file: the clones are written, remove_async drops the entry of
\* every key written, the BufWriter is flushed; then is_time_to_upload, the
\* spawn of async_upload, and the guards are dropped
FlushRemoves(c) ==
    /\ callers[c].pc = "remove"
    /\ buffered_records' = [k \in DOMAIN buffered_records \ DOMAIN callers[c].scanned |->
                                buffered_records[k]]
    /\ buffered_file' = buffered_file \o Lines(callers[c].scanned, DOMAIN callers[c].scanned)
    /\ upload_tasks' = IF is_time_to_upload(dotting_disabled, dot_uploading_disabled,
                                            Unwrap(dotter_inner), buffered_file', now)
                       THEN upload_tasks + 1 ELSE upload_tasks
    /\ section' = section \ {c}
    /\ callers' = [callers EXCEPT ![c] = Idle]
    /\ last' = NoCall
    /\ UNCHANGED <<selector_vars, now, task_vars>>
    /\ UNCHANGED <<dotting_disabled, dot_uploading_disabled, dotter_inner, file_locked>>
    /\ UNCHANGED <<records_map, uploader, monitor, dots_merged>>

\* the spawned task: lock_buffered_file and is_time_to_upload
UploadStarts ==
    /\ upload_tasks > 0
    /\ uploader = <<>>
    /\ upload_tasks' = upload_tasks - 1
    /\ IF /\ try_lock(section)
          /\ ~file_locked
          /\ is_time_to_upload(dotting_disabled, dot_uploading_disabled,
                               Unwrap(dotter_inner), buffered_file, now)
       THEN /\ section' = section \cup {UploadTask}
            /\ uploader' = <<[left |-> Unwrap(dotter_inner).tries]>>
       ELSE UNCHANGED <<section, uploader>>
    /\ last' = NoCall
    /\ UNCHANGED <<selector_vars, now, task_vars>>
    /\ UNCHANGED <<dotting_disabled, dot_uploading_disabled, dotter_inner, buffered_records,
                   buffered_file, file_locked>>
    /\ UNCHANGED <<records_map, callers, monitor, dots_merged>>

\* one turn of upload_with_retry; after the last one the guards are dropped
UploadPosts ==
    /\ Len(uploader) = 1
    /\ \E outcome \in AnsweredOutcomes :
        \E next \in {upload_turn(UploadStart(hosts_map, index, current_timeout_power,
                                             buffered_records, buffered_file, monitor),
                                 hosts, host_punisher, overflow_checks, now, outcome)} :
           /\ hosts_map' = next.hosts_map
           /\ index' = next.index
           /\ current_timeout_power' = next.current_timeout_power
           /\ buffered_records' = next.buffered_records
           /\ buffered_file' = next.buffered_file
           /\ monitor' = next.monitor
           /\ dots_merged' = [dots_merged EXCEPT
                                  !.merged = AddCounts(@, AttemptCounts(next.attempts))]
           /\ IF next.returned \/ uploader[1].left = 1
              THEN /\ uploader' = <<>>
                   /\ section' = section \ {UploadTask}
              ELSE /\ uploader' = <<[left |-> uploader[1].left - 1]>>
                   /\ section' = section
    /\ last' = NoCall
    /\ UNCHANGED <<hosts, host_punisher, overflow_checks, now, task_vars>>
    /\ UNCHANGED <<dotting_disabled, dot_uploading_disabled, dotter_inner, file_locked,
                   upload_tasks>>
    /\ UNCHANGED <<records_map, callers>>

\* another process takes the advisory lock when no task here holds it, or
\* drops it
OtherProcessTakesLock ==
    /\ section = {}
    /\ OtherProcessLocks

InitFlush == InitDotter({<<"h1">>}, {TRUE}, {<<10, 100>>})

NextFlush ==
    \/ \E c \in CallerIds : DotMerges(c)
    \/ \E c \in CallerIds : DotLocks(c)
    \/ \E c \in CallerIds : FlushScans(c)
    \/ \E c \in CallerIds : FlushRemoves(c)
    \/ UploadStarts
    \/ UploadPosts
    \/ OtherProcessTakesLock

SpecFlush == InitFlush /\ [][NextFlush]_vars

\* no task is inside Dotter::dot and no upload task is left
Quiescent ==
    /\ \A c \in CallerIds : callers[c].pc = "idle"
    /\ uploader = <<>>
    /\ upload_tasks = 0

\* the calls the map, the file and the accepted bodies stand for
CountsKept ==
    AddCounts(CountsOfRecords(into_records(buffered_records)),
              AddCounts(CountsOfFile(buffered_file), CountsOfBodies(monitor.accepted)))

\* C13: no dot is lost: once every call has returned and every upload task
\* has ended, the calls the map, the file and the accepted bodies stand for
\* are, for every key and outcome, the calls that were merged
C13_NoDotLost ==
    Quiescent =>
        \A x \in DOMAIN dots_merged.merged \cup DOMAIN CountsKept :
            CountOf(CountsKept, x) = CountOf(dots_merged.merged, x)

\* the tasks at a step between the taking and the dropping of the guards
InsideSection ==
    {c \in CallerIds : callers[c].pc \in {"scan", "remove"}}
        \cup (IF Len(uploader) = 1 THEN {UploadTask} ELSE {})

\* C14: at most one task is inside a flush or upload critical section, it is
\* the holder of the mutex and of the advisory lock from its first step to
\* its last (every request of an upload included), and no other process
\* holds the advisory lock meanwhile
C14_OneSection ==
    /\ Cardinality(InsideSection) <= 1
    /\ section = InsideSection
    /\ section # {} => ~file_locked

\* the upload task is between two requests, holding the guards, while a
\* caller that merged a record is about to try the lock
C14_Witness ==
    /\ section = {UploadTask}
    /\ Len(uploader) = 1
    /\ uploader[1].left < Unwrap(dotter_inner).tries
    /\ \E c \in CallerIds : callers[c].pc = "lock"

----------------------------------------------------------------------------
(* SpecCalls: Dotter::dot and Dotter::punish are called on a dotter built   *)
(* with or without monitor urls and with or without its file, while the    *)
(* toggles are set and cleared, another process takes the advisory lock     *)
(* and the file system fails; the spawned upload tasks run one at a time    *)

DotCall == DotCalled({<<"sdk", "io_getfile">>}, {TRUE}, IoOutcomes)

PunishCall == PunishCalled(StatOutcomes)

UploadTaskRuns == UploadRuns(LockOutcomes, AnsweredOutcomes)

InitCalls == InitDotter({<<>>, <<"h1">>}, BOOLEAN, DotterSettings)

NextCalls ==
    \/ DotCall
    \/ PunishCall
    \/ UploadTaskRuns
    \/ SetDottingDisabled
    \/ SetDotUploadingDisabled
    \/ OtherProcessLocks
    \/ Tick

SpecCalls == InitCalls /\ [][NextCalls]_vars

\* `last` keeps a call of Dotter::dot or Dotter::punish
CallReturned == last.op \in {"dot", "punish"}

\* the call `last` keeps left the map, the file, the spawned tasks and the
\* monitor as they were
CallChangedNothing ==
    /\ buffered_records = last.pre.buffered_records
    /\ buffered_file = last.pre.buffered_file
    /\ upload_tasks = last.pre.upload_tasks
    /\ monitor = last.pre.monitor

\* C15: a dotter built with no monitor url, or whose file could not be
\* opened, has no inner; every dot and punish on it returns Ok and changes
\* no record, no file and no task, and the monitor is never sent a request
C15_InertDotter ==
    (Len(hosts) = 0 \/ ~IsSome(dotter_inner)) =>
        /\ buffered_records = <<>>
        /\ buffered_file = <<>>
        /\ upload_tasks = 0
        /\ monitor.requests = 0
        /\ CallReturned => last.result = "Ok" /\ CallChangedNothing

\* dot was called on a dotter built with no monitor url, after the clock
\* passed the interval
C15_Witness ==
    /\ last.op = "dot"
    /\ Len(hosts) = 0
    /\ ~IsSome(dotter_inner)
    /\ ~last.pre.dotting_disabled
    /\ now > 0

\* C16: a dot or punish called while dotting is disabled returns Ok and
\* merges nothing, flushes nothing and spawns no upload; an upload task that
\* runs while dotting is disabled sends no request; a call on an active
\* dotter with dotting enabled merges its record
C16_DisabledDotting ==
    /\ (CallReturned /\ last.pre.dotting_disabled) =>
           /\ last.result = "Ok"
           /\ CallChangedNothing
           /\ dots_merged = last.pre.history
    /\ (last.op = "upload" /\ last.pre.dotting_disabled) =>
           /\ last.attempts = <<>>
           /\ monitor = last.pre.monitor
    /\ (CallReturned /\ ~last.pre.dotting_disabled /\ IsSome(dotter_inner)) =>
           dots_merged.calls = last.pre.history.calls + 1

\* dot was called while dotting was disabled on an active dotter of interval
\* 0, after the interval had passed and after an earlier call had merged
C16_Witness ==
    /\ last.op = "dot"
    /\ last.pre.dotting_disabled
    /\ IsSome(dotter_inner)
    /\ Unwrap(dotter_inner).interval = 0
    /\ now > Unwrap(dotter_inner).uploaded_at
    /\ ~last.pre.file_locked
    /\ last.io = "ok"
    /\ dots_merged.calls = 1

\* C17: every call of dot and punish returns Ok
C17_AlwaysOk == CallReturned => last.result = "Ok"

----------------------------------------------------------------------------
(* SpecRetry: one task dots, and every spawned upload task meets, at each   *)
(* of its attempts, any of UploadOutcomes; the monitor selector holds one   *)
(* host or two.  `last` keeps the attempts of the upload                    *)

RetryDot == DotCalled({<<"sdk", "io_getfile">>}, {TRUE}, {"ok"})

RetryUpload == UploadRuns({"ok"}, UploadOutcomes)

\* a dotter that uploads a file of more than 100 bytes, with one monitor
\* host and with two
InitRetry == InitDotter({<<"h1">>, <<"h1", "h2">>}, {TRUE}, {<<10, 100>>})

NextRetry ==
    \/ RetryDot
    \/ RetryUpload

SpecRetry == InitRetry /\ [][NextRetry]_vars

\* the upload `last` keeps ran the closure of do_upload at least once
UploadAttempted == last.op = "upload" /\ Len(last.attempts) > 0

\* the attempts of the upload `last` keeps that the monitor answered 200 to
\* and whose file was then truncated
EmptyingAttempts == {i \in 1..Len(last.attempts) : last.attempts[i].outcome = "ok"}

\* a is a prefix of b
IsPrefix(a, b) == Len(a) <= Len(b) /\ \A i \in 1..Len(a) : a[i] = b[i]

\* C19: the file is emptied only by an attempt whose request, with the
\* records of the file as its body, the monitor answered 200 to; an attempt
\* that fails (the file could not be read, the request timed out, the status
\* was not 200, set_len failed) leaves the lines of the file as they were,
\* and so does an upload without a successful attempt; a dot or punish only
\* appends lines
C19_TruncateAfter200 ==
    /\ last.op = "upload" =>
           /\ \A i \in 1..Len(last.attempts) :
                  LET a == last.attempts[i]
                  IN IF a.outcome = "ok"
                     THEN /\ a.file_after = <<>>
                          /\ Len(monitor.accepted) > 0
                          /\ LastPayload = make_request_body(a.file_before)
                     ELSE a.file_after = a.file_before
           /\ buffered_file = IF EmptyingAttempts # {} THEN <<>>
                              ELSE last.pre.buffered_file
    /\ CallReturned => IsPrefix(last.pre.buffered_file, buffered_file)

\* an upload whose first request was answered with another status than 200
\* and left the two lines of the file, and whose second request was answered
\* 200 and emptied it
C19_Witness ==
    /\ UploadAttempted
    /\ Len(last.attempts) = 2
    /\ last.attempts[1].outcome = "status"
    /\ Len(last.attempts[1].file_after) = 2
    /\ last.attempts[2].outcome = "ok"
    /\ last.attempts[2].file_before = last.pre.buffered_file
    /\ buffered_file = <<>>

\* C20: an upload runs the closure at most tries times and sends at most
\* tries requests; a successful attempt is the last one, and its host was
\* rewarded; the host of every failed attempt was punished before the next
\* host was selected; no host is excluded from a selection, so an upload
\* without a successful attempt makes tries attempts, all of them at the one
\* host when the selector has one
C20_RetryLoop ==
    UploadAttempted =>
        LET attempts == last.attempts
            tries == Unwrap(dotter_inner).tries
        IN /\ Len(attempts) <= tries
           /\ monitor.requests - last.pre.monitor.requests
                  = Cardinality({i \in 1..Len(attempts) : PostSent(attempts[i].outcome)})
           /\ \A i \in 1..Len(attempts) :
                  LET a == attempts[i]
                  IN IF a.outcome = "ok"
                     THEN /\ i = Len(attempts)
                          /\ a.told = "reward"
                          /\ a.times_after = 0
                          /\ last.result = "Ok"
                     ELSE /\ a.told \in {"Punished", "PunishedAndFreezed"}
                          /\ a.times_after = a.times_before + 1
           /\ \A i, j \in 1..Len(attempts) :
                  (/\ i < j
                   /\ attempts[i].host = attempts[j].host
                   /\ \A k \in (i + 1)..(j - 1) : attempts[k].host # attempts[i].host) =>
                      attempts[j].times_before = attempts[i].times_after
           /\ \A i \in 1..Len(attempts) :
                  (\A k \in (i + 1)..Len(attempts) : attempts[k].host # attempts[i].host) =>
                      hosts_map[attempts[i].host].continuous_punished_times
                          = attempts[i].times_after
           /\ EmptyingAttempts = {} =>
                  /\ Len(attempts) = tries
                  /\ last.result = "Err"
                  /\ Len(hosts) = 1 => \A i \in 1..Len(attempts) : attempts[i].host = hosts[1]

\* an upload with one monitor host whose two attempts, both at that host,
\* failed: the host had been punished once when it was selected again
C20_Witness ==
    /\ UploadAttempted
    /\ Len(hosts) = 1
    /\ Len(last.attempts) = 2
    /\ last.attempts[1].host = last.attempts[2].host
    /\ last.attempts[1].outcome = "timeout"
    /\ last.attempts[2].outcome = "status"
    /\ last.attempts[2].times_before = last.attempts[1].times_after
    /\ last.attempts[2].times_after = 2

----------------------------------------------------------------------------
(* The sync bridge (src/src/async_api/sync.rs): the threads of              *)
(* BridgeCallers hold clones of one RangeReaderHandle and call read_at      *)
(* through it; the runtime thread receives the messages, spawns one task    *)
(* for each and the task forwards what the reader answered into the oneshot *)
(* channel of its message                                                   *)

\* the threads holding a clone of the handle
BridgeCallers == {"t1", "t2"}

\* the positions read_at is called with
ReadPositions == {0, 1}

\* what the reader may do with a request
ReadOutcomes == {"ok", "err"}

\* Request::ReadAt { key, pos, size }
ReadAtRequest(pos) == [kind |-> "ReadAt", pos |-> pos]

\* Request::send: the Response of the reader, Ok(ResponseData::Bytes) of the
\* bytes at pos or the io::Error of the reader
RequestSend(request, outcome) ==
    IF outcome = "ok"
    THEN [ok |-> TRUE, data |-> <<"Bytes", request.pos>>]
    ELSE [ok |-> FALSE, data |-> <<"IoError", request.pos>>]

\* channel(): a oneshot channel nothing was sent into; sends counts the
\* values sent into it
NewOneshot == [value |-> None, sends |-> 0, tx_dropped |-> FALSE, rx_dropped |-> FALSE, rx_task |-> FALSE]

\* a send into the oneshot channel that waits longest, whatever tx is
oneshot_send_to_waiting(channels, tx, response) ==
    LET waiting == {id \in DOMAIN channels : ~IsSome(channels[id].value)}
        first == CHOOSE id \in waiting : \A other \in waiting : id[2] <= other[2]
    IN [channels EXCEPT ![first] = [@ EXCEPT !.value = Some(response),
                                             !.sends = @ + 1,
                                             !.tx_dropped = TRUE]]

\* tx.send(result): the value reaches the receiver of this sender, and the
\* sender is consumed
oneshot_send(channels, tx, response) ==
    [channels EXCEPT ![tx] = [@ EXCEPT !.value = IF channels[tx].rx_dropped THEN @
                                                ELSE Some(response),
                                       !.sends = @ + 1,
                                       !.tx_dropped = TRUE]]

\* a receive that stays pending on an empty channel whose senders are gone
recv_never_closed(channel) ==
    IF Len(channel.queue) > 0 THEN "message" ELSE "pending"

\* rx.recv(): the next message, None once every sender is dropped and the
\* queue is empty, pending otherwise
recv(channel) ==
    IF Len(channel.queue) > 0 THEN "message"
    ELSE IF channel.senders = 0 THEN "closed"
    ELSE "pending"

\* the clones of the handle that were not dropped
LiveClones == {c \in DOMAIN clients : clients[c].pc # "dropped"}

\* the id of the oneshot channel of the request c is about to send
NextRequestId(c) == <<c, clients[c].reads + 1>>

\* execute_request up to block_on: a oneshot channel is made, the request
\* and its sender go into the request channel, the thread parks
ExecuteRequest(c) ==
    /\ clients[c].pc = "idle"
    /\ clients[c].reads < MaxReads
    /\ request_channel.senders > 0
    /\ worker.pc = "recv"
    /\ \E pos \in ReadPositions :
           /\ clients' = [clients EXCEPT ![c] = [@ EXCEPT !.pc = "parked",
                                                          !.request = Some(ReadAtRequest(pos))]]
           /\ request_channel' = [request_channel EXCEPT
                                     !.queue = Append(@, [request |-> ReadAtRequest(pos),
                                                          tx |-> NextRequestId(c)])]
    /\ oneshots' = [id \in DOMAIN oneshots \cup {NextRequestId(c)} |->
                       IF id \in DOMAIN oneshots THEN oneshots[id] ELSE NewOneshot]
    /\ last' = NoCall
    /\ UNCHANGED <<worker, inner_drop>>
    /\ UNCHANGED <<selector_vars, now, sel, upd, refresh_vars, START_TIME, dotter_vars>>

\* one turn of `while let Some((req, req_tx)) = rx.recv().await`: the task
\* forward(req.send(range_reader), req_tx) is spawned
WorkerRecv ==
    /\ worker.pc = "recv"
    /\ recv(request_channel) = "message"
    /\ request_channel' = [request_channel EXCEPT !.queue = Tail(@)]
    /\ worker' = [worker EXCEPT !.tasks = @ \cup {Head(request_channel.queue)}]
    /\ last' = NoCall
    /\ UNCHANGED <<clients, oneshots, inner_drop>>
    /\ UNCHANGED <<selector_vars, now, sel, upd, refresh_vars, START_TIME, dotter_vars>>

\* rx.recv() returned None: the loop ends, block_on returns and the runtime
\* is dropped with the tasks it still holds, whose senders are dropped
WorkerExits ==
    /\ worker.pc = "recv"
    /\ recv(request_channel) = "closed"
    /\ worker' = [worker EXCEPT !.pc = "exited", !.tasks = {}]
    /\ oneshots' = [id \in DOMAIN oneshots |->
                       IF \E task \in worker.tasks : task.tx = id
                       THEN [oneshots[id] EXCEPT !.tx_dropped = TRUE]
                       ELSE oneshots[id]]
    /\ last' = NoCall
    /\ UNCHANGED <<clients, request_channel, inner_drop>>
    /\ UNCHANGED <<selector_vars, now, sel, upd, refresh_vars, START_TIME, dotter_vars>>

\* a poll that gives the request up while its receiver is still there
forward_poll_impatient(ready, closed) ==
    IF ready THEN "ready" ELSE "canceled"

\* the poll_fn of forward: the future of the request is polled first; when
\* it is pending, tx.poll_closed decides between waiting and giving up
forward_poll(ready, closed) ==
    IF ready THEN "ready"
    ELSE IF closed THEN "canceled"
    ELSE "pending"

\* forward is polled: the future of the request is ready and its result is
\* sent into the oneshot sender of the task (a send to a dropped receiver
\* fails and is ignored), or it is pending, the receiver was dropped and the
\* task ends there, dropping the future.  answered keeps what the reader
\* answered to every request, canceled the requests given up
Forward ==
    /\ worker.pc = "recv"
    /\ \E task \in worker.tasks, ready \in BOOLEAN :
           \E polled \in {forward_poll(ready, oneshots[task.tx].rx_dropped)} :
               \/ /\ polled = "canceled"
                  /\ worker' = [worker EXCEPT !.tasks = @ \ {task},
                                              !.canceled = @ \cup {task.tx}]
                  /\ oneshots' = [oneshots EXCEPT ![task.tx] = [@ EXCEPT !.tx_dropped = TRUE]]
               \/ /\ polled = "ready"
                  /\ \E outcome \in ReadOutcomes :
                         /\ worker' = [worker EXCEPT
                                          !.tasks = @ \ {task},
                                          !.answered = [id \in DOMAIN @ \cup {task.tx} |->
                                                           IF id = task.tx
                                                           THEN RequestSend(task.request, outcome)
                                                           ELSE @[id]]]
                         /\ oneshots' = oneshot_send(oneshots, task.tx,
                                                     RequestSend(task.request, outcome))
    /\ last' = NoCall
    /\ UNCHANGED <<clients, request_channel, inner_drop>>
    /\ UNCHANGED <<selector_vars, now, sel, upd, refresh_vars, START_TIME, dotter_vars>>

\* block_on(rx) returns in execute_request: the thread was unparked, the
\* oneshot receiver is ready with the value, or with an error when the
\* sender was dropped, which panics the thread
RequestReturns(c) ==
    /\ clients[c].pc = "parked"
    /\ LET id == NextRequestId(c)
       IN /\ IsSome(oneshots[id].value) \/ oneshots[id].tx_dropped
          /\ IF IsSome(oneshots[id].value)
             THEN /\ clients' = [clients EXCEPT
                                    ![c] = [@ EXCEPT !.pc = "idle", !.reads = @ + 1]]
                  /\ last' = [op |-> "execute_request", caller |-> c, id |-> id,
                              request |-> Unwrap(clients[c].request),
                              response |-> Unwrap(oneshots[id].value)]
             ELSE /\ clients' = [clients EXCEPT ![c] = [@ EXCEPT !.pc = "panicked"]]
                  /\ last' = [op |-> "execute_request", caller |-> c, id |-> id,
                              request |-> Unwrap(clients[c].request),
                              response |-> [ok |-> FALSE, data |-> <<"panic">>]]
          /\ oneshots' = [oneshots EXCEPT ![id] = [@ EXCEPT !.rx_dropped = TRUE]]
    /\ UNCHANGED <<request_channel, worker, inner_drop>>
    /\ UNCHANGED <<selector_vars, now, sel, upd, refresh_vars, START_TIME, dotter_vars>>

\* a thread drops its clone; the drop of the last one runs
\* RangeReaderHandleInner::drop, which takes tx, closing the request channel,
\* and then joins the runtime thread
DropHandle(c) ==
    /\ clients[c].pc = "idle"
    /\ clients' = [clients EXCEPT ![c] = [@ EXCEPT !.pc = "dropped"]]
    /\ IF LiveClones = {c}
       THEN /\ request_channel' = [request_channel EXCEPT !.senders = 0]
            /\ inner_drop' = [pc |-> "joining", thread |-> c]
       ELSE UNCHANGED <<request_channel, inner_drop>>
    /\ last' = NoCall
    /\ UNCHANGED <<oneshots, worker>>
    /\ UNCHANGED <<selector_vars, now, sel, upd, refresh_vars, START_TIME, dotter_vars>>

\* h.join() returns: the runtime thread has finished
DropJoins ==
    /\ inner_drop.pc = "joining"
    /\ worker.pc = "exited"
    /\ inner_drop' = [inner_drop EXCEPT !.pc = "returned"]
    /\ last' = NoCall
    /\ UNCHANGED <<clients, request_channel, oneshots, worker>>
    /\ UNCHANGED <<selector_vars, now, sel, upd, refresh_vars, START_TIME, dotter_vars>>

\* the state RangeReaderHandle::new and the clones of the handle leave: the
\* runtime thread is in its loop, every thread of BridgeCallers holds a clone
InitBridge ==
    /\ InitHosts(<<"h1">>, TestPunisher)
    /\ overflow_checks = FALSE
    /\ InitNoDotter
    /\ clients = [c \in BridgeCallers |-> [pc |-> "idle", reads |-> 0, request |-> None]]
    /\ request_channel = [senders |-> 1, queue |-> <<>>]
    /\ oneshots = <<>>
    /\ worker = [pc |-> "recv", tasks |-> {}, answered |-> <<>>, canceled |-> {}, waking |-> {}]
    /\ inner_drop = [pc |-> "none"]

NextBridge ==
    \/ \E c \in BridgeCallers : ExecuteRequest(c)
    \/ WorkerRecv
    \/ WorkerExits
    \/ Forward
    \/ \E c \in BridgeCallers : RequestReturns(c)
    \/ \E c \in BridgeCallers : DropHandle(c)
    \/ DropJoins

SpecBridge == InitBridge /\ [][NextBridge]_vars

\* the runtime thread is scheduled, and so is the thread joining it
SpecBridgeLive ==
    /\ SpecBridge
    /\ WF_vars(WorkerRecv)
    /\ WF_vars(WorkerExits)
    /\ WF_vars(Forward)
    /\ WF_vars(DropJoins)
    /\ \A c \in BridgeCallers : WF_vars(RequestReturns(c))

\* no message waits in the request channel and no task runs
BridgeQuiet == Len(request_channel.queue) = 0 /\ worker.tasks = {}

C22_DropTerminates ==
    /\ [](request_channel.senders = 0 <=> LiveClones = {})
    /\ [](inner_drop.pc = "returned" => worker.pc = "exited")
    /\ [](inner_drop.pc = "none" => worker.pc = "recv")
    /\ (LiveClones = {}) ~> (inner_drop.pc = "returned")

\* the last clone was dropped after both threads had read through the
\* handle, and the drop has returned
C22_Witness ==
    /\ inner_drop.pc = "returned"
    /\ worker.pc = "exited"
    /\ \A c \in BridgeCallers : clients[c].reads = 1 /\ clients[c].pc = "dropped"

----------------------------------------------------------------------------
(* SpecSerde: a DotRecord is written as a line by serde_json::to_string and *)
(* the line is read back by serde_json::from_str; `last` keeps the record,  *)
(* the line and what was read                                               *)

\* DotType and ApiName, as serde writes them (lowercase, snake_case)
SerdeDotTypes == {"sdk", "http"}
SerdeApiNames == {"io_getfile", "uc_v4_query"}

\* the counts (usize) and the averages (u128, milliseconds) of the records:
\* the largest usize is U64Modulus - 1, a u128 may be larger
SerdeCounts == {0, 1, U64Modulus - 1}
SerdeAverages == {0, 1, U64Modulus - 1, U64Modulus}

SerdeRecords ==
    {[type |-> "PunishedCount", punished_count |-> n] : n \in SerdeCounts} \cup
    {DotRecordNew(t, a, sc, fc, sa, fa) :
        t \in SerdeDotTypes, a \in SerdeApiNames, sc \in SerdeCounts, fc \in SerdeCounts,
        sa \in SerdeAverages, fa \in SerdeAverages}

\* let mut line = serde_json::to_string(record)?
Serialize ==
    \E record \in SerdeRecords :
        /\ last' = [op |-> "to_string", record |-> record, line |-> to_string(record)]
        /\ UNCHANGED <<selector_vars, now, task_vars, dotter_vars>>

\* serde_json::from_str::<DotRecord>(&line)
Deserialize ==
    /\ last.op = "to_string"
    /\ last' = [op |-> "from_str", record |-> last.record, line |-> last.line,
                result |-> from_str(last.line)]
    /\ UNCHANGED <<selector_vars, now, task_vars, dotter_vars>>

InitSerde ==
    /\ InitSelector(<<"h1">>, TestPunisher)
    /\ overflow_checks = FALSE
    /\ InitNoDotter

NextSerde == Serialize \/ Deserialize

SpecSerde == InitSerde /\ [][NextSerde]_vars

\* C23: every DotRecord that was serialized is deserialized as the same
\* record, of the same variant with the same fields
C23_RoundTrip ==
    last.op = "from_str" => last.result = Some(last.record)

\* what is read back is never a record of the other variant
C23_VariantKept ==
    last.op = "from_str" /\ IsSome(last.result) =>
        Unwrap(last.result).type = last.record.type

\* the records whose numbers a Value holds as integers are read back as
\* they were written
C23_RoundTripBelowU64 ==
    last.op = "from_str" =>
        \/ last.result = Some(last.record)
        \/ /\ last.record.type = "APICalls"
           /\ \/ last.record.success_avg_elapsed_duration >= U64Modulus
              \/ last.record.failed_avg_elapsed_duration >= U64Modulus
           /\ last.result = None

----------------------------------------------------------------------------
(* SpecSelect, the order of the probes: select_host reads the counter,     *)
(* probes hosts[counter % N], and adds one to the counter for every probe  *)

\* no host of the sequence has an unexpired punishment
NoUnexpiredPunishment ==
    \A h \in Range(hosts) \cap DOMAIN hosts_map :
        is_punishment_expired(host_punisher, hosts_map[h], now)

\* the host of the k-th probe (k = 0, 1, ..) of a call that read the counter at from
ProbedHost(from, k) == hosts[(((from + k) % UsizeModulus) % Len(hosts)) + 1]

\* the probes the last call made: the counter advances once per probe
ProbesMade == (index - last.from) % UsizeModulus

\* C24: while no host has an unexpired punishment, select_host({}) returns the
\* host at the counter's place in the sequence (hosts[i mod N], i the value of
\* the counter) with timeout = base_timeout and timeout_power = 0, and moves
\* the counter to the next place, so that successive calls go round the
\* sequence; hosts whose punishments have all expired are back in the round
C24_Rotation ==
    (last.op = "select_host" /\ last.tried = {} /\ NoUnexpiredPunishment) =>
        /\ last.result = Some([host |-> ProbedHost(last.from, 0),
                               timeout |-> host_punisher.base_timeout,
                               timeout_power |-> 0])
        /\ index = (last.from + 1) % UsizeModulus

\* h1 and h2 were punished, the punishments have expired, and select_host({})
\* returns h2, the host after h1 in the sequence, with the base timeout
C24_Witness ==
    /\ last.op = "select_host"
    /\ last.tried = {}
    /\ NoUnexpiredPunishment
    /\ last.from = 1
    /\ IsSome(hosts_map["h1"].last_punished_at)
    /\ IsSome(hosts_map["h2"].last_punished_at)
    /\ last.result = Some([host |-> "h2", timeout |-> 100, timeout_power |-> 0])

\* C25: a host that select_host probed (outside tried) and whose punishment
\* has expired, or that was never punished, is the host returned, with
\* timeout = base_timeout and timeout_power = 0 whatever its stored
\* timeout_power, continuous_punished_times and failed_to_connect are, and
\* the call leaves the stored state of every host as it was
C25_ExpiredSelected ==
    /\ [](last.op = "select_host" /\ ~last.panicked =>
              \A k \in 0..(ProbesMade - 1) :
                  LET h == ProbedHost(last.from, k)
                  IN (/\ h \notin last.tried
                      /\ h \in DOMAIN hosts_map
                      /\ is_punishment_expired(host_punisher, hosts_map[h], now)) =>
                         last.result = Some([host |-> h,
                                             timeout |-> host_punisher.base_timeout,
                                             timeout_power |-> 0]))
    /\ [][last'.op = "select_host" => hosts_map' = hosts_map]_vars

\* the host returned with the base timeout and power 0 has an expired
\* punishment, a stored timeout_power of 1, one punishment in a row (more
\* than max_punished_times) and a failed connection
C25_Witness ==
    /\ last.op = "select_host"
    /\ IsSome(last.result)
    /\ Unwrap(last.result).timeout = host_punisher.base_timeout
    /\ Unwrap(last.result).timeout_power = 0
    /\ LET info == hosts_map[Unwrap(last.result).host]
       IN /\ IsSome(info.last_punished_at)
          /\ is_punishment_expired(host_punisher, info, now)
          /\ info.timeout_power = 1
          /\ info.continuous_punished_times > host_punisher.max_punished_times
          /\ info.failed_to_connect

\* whether a probe takes the host h at once, current_timeout_power being ctp:
\* its punishment has expired, or it has no failed connection, no more than
\* max_punished_times punishments in a row and a timeout_power of at most ctp
TakenAtOnce(h, ctp) ==
    /\ h \in DOMAIN hosts_map
    /\ \/ is_punishment_expired(host_punisher, hosts_map[h], now)
       \/ /\ ~hosts_map[h].failed_to_connect
          /\ hosts_map[h].continuous_punished_times <= host_punisher.max_punished_times
          /\ ctp >= hosts_map[h].timeout_power

\* what select_host hands out for the host h it returns
HandedOut(h) ==
    IF is_punishment_expired(host_punisher, hosts_map[h], now)
    THEN [host |-> h, timeout |-> host_punisher.base_timeout, timeout_power |-> 0]
    ELSE [host |-> h, timeout |-> timeout(host_punisher, hosts_map[h]),
          timeout_power |-> hosts_map[h].timeout_power]

\* a step of select_host, from the state it is called in to the state it returns in
SelectStepLaw ==
    last'.op = "select_host" =>
        LET tried == last'.tried
            result == last'.result
            n == (index' - index) % UsizeModulus
            K == (Len(hosts) * host_punisher.max_punished_hosts_percent) \div 100
            qualifying == {k \in 0..(n - 1) :
                              /\ ProbedHost(index, k) \notin tried
                              /\ TakenAtOnce(ProbedHost(index, k), current_timeout_power)}
            untried == {ProbedHost(index, k) : k \in 0..(n - 1)} \ tried
        IN /\ last'.from = index
           /\ n \in 1..(K + 1)
           /\ IF qualifying # {}
              THEN /\ qualifying = {n - 1}
                   /\ result = Some(HandedOut(ProbedHost(index, n - 1)))
              ELSE /\ n = K + 1
                   /\ result = None <=> untried = {}
                   /\ IsSome(result) =>
                          /\ Unwrap(result).host \in untried
                          /\ result = Some(HandedOut(Unwrap(result).host))
           /\ current_timeout_power' =
                  IF IsSome(result) THEN Unwrap(result).timeout_power
                  ELSE current_timeout_power

\* C26: select_host probes at most K + 1 hosts, K = floor(N *
\* max_punished_hosts_percent / 100), and adds one to the counter for every
\* probe; it returns the first probed host outside tried whose punishment has
\* expired or that has no failed connection, at most max_punished_times
\* punishments in a row and a timeout_power of at most current_timeout_power;
\* a host that fails this test is returned only when no probed host passes
\* it; the timeout_power handed out is stored in current_timeout_power, and
\* a host with an unexpired punishment is handed out with timeout(state) and
\* its stored timeout_power
C26_ProbeWindow == [][SelectStepLaw]_vars

\* select_host({}) probed a frozen host first and returned the second host
\* it probed, whose punishment has not expired, with its stored
\* timeout_power 1 and twice the base timeout
C26_Witness ==
    /\ last.op = "select_host"
    /\ last.tried = {}
    /\ ProbesMade = 2
    /\ LET first == hosts_map[ProbedHost(last.from, 0)]
       IN /\ ~is_punishment_expired(host_punisher, first, now)
          /\ first.continuous_punished_times > host_punisher.max_punished_times
    /\ ~is_punishment_expired(host_punisher, hosts_map[ProbedHost(last.from, 1)], now)
    /\ last.result = Some([host |-> ProbedHost(last.from, 1), timeout |-> 200,
                           timeout_power |-> 1])
    /\ current_timeout_power = 1

----------------------------------------------------------------------------
(* SpecFallback: one task inside select_host, advancing from one await to  *)
(* the next, between calls of other tasks on the two hosts and ticks of    *)
(* the clock; `last` keeps the candidates the loop left                    *)

InitFallback ==
    /\ InitSelector(<<"h1", "h2">>, [TestPunisher EXCEPT !.max_punished_times = 0])
    /\ overflow_checks = FALSE
    /\ InitNoDotter

\* select_host(&Default::default()): the call with nothing tried
SelectAcquireUntried ==
    /\ SelectAcquire
    /\ sel'.tried = {}

\* the calls of other tasks that make a host worse: a punishment, a timeout
\* that raises its timeout_power, a failed connection; `last` drops them
FallbackCalls ==
    /\ last' = NoCall
    /\ \E host \in RegistryHosts :
        \/ /\ PunishedBelow(host, host_punisher.max_punished_times + 1)
           /\ punish_without_dotter(host, "timeout")
        \/ increase_timeout_power_by(host, 0)
        \/ mark_connection_as_failed(host)

NextFallback ==
    \/ SelectAcquireUntried
    \/ SelectTurn
    \/ SelectReturn
    \/ FallbackCalls
    \/ Tick

SpecFallback == InitFallback /\ [][NextFallback]_vars

\* select_host returned without having chosen a probed host in its loop
FellBack ==
    /\ last.op = "select_host"
    /\ ~last.panicked
    /\ ~IsSome(last.chosen)
    /\ Len(last.candidates) > 0

\* what select_host hands out for the candidate c
CandidateHandedOut(c) ==
    [host |-> c.host, timeout |-> timeout(host_punisher, c.punished_info),
     timeout_power |-> c.punished_info.timeout_power]

\* the candidate c is preferred to d: its punishment has expired and that of d
\* has not, or both are unexpired and c alone is available, or both are
\* unexpired and equally available and the state of c is the smaller one;
\* connection_sensitive says whether a failed connection makes a candidate
\* unavailable
Preferred(c, d, connection_sensitive) ==
    LET ec == is_punishment_expired(host_punisher, c.punished_info, now)
        ed == is_punishment_expired(host_punisher, d.punished_info, now)
        ac == is_available(host_punisher, c.punished_info, connection_sensitive)
        ad == is_available(host_punisher, d.punished_info, connection_sensitive)
    IN IF ec \/ ed THEN ec /\ ~ed
       ELSE IF ac # ad THEN ac
       ELSE CmpPunishedInfo(c.punished_info, d.punished_info) = -1

\* C27: when no probed host is selected directly, select_host returns a
\* candidate to which no other candidate is preferred, where a candidate with
\* an expired punishment is preferred to one without, among unexpired ones a
\* candidate with continuous_punished_times <= max_punished_times (whatever
\* its failed_to_connect) is preferred to one with more, and otherwise the
\* smaller state under (failed_to_connect, timeout_power,
\* continuous_punished_times, last_punished_at) is preferred
C27_LeastBadIgnoringConnection ==
    FellBack =>
        \E i \in 1..Len(last.candidates) :
            /\ last.result = Some(CandidateHandedOut(last.candidates[i]))
            /\ \A j \in 1..Len(last.candidates) :
                   ~Preferred(last.candidates[j], last.candidates[i], FALSE)

\* C27, amended: the same with the availability of a candidate being that it
\* has no failed connection and continuous_punished_times <= max_punished_times
C27_LeastBad ==
    FellBack =>
        \E i \in 1..Len(last.candidates) :
            /\ last.result = Some(CandidateHandedOut(last.candidates[i]))
            /\ \A j \in 1..Len(last.candidates) :
                   ~Preferred(last.candidates[j], last.candidates[i], TRUE)

\* of a candidate with a failed connection and no punishment in a row and a
\* frozen candidate without a failed connection, both unexpired, select_host
\* returned the frozen one
C27_Witness ==
    /\ FellBack
    /\ Len(last.candidates) = 2
    /\ \E i, j \in 1..2 :
           LET c == last.candidates[i].punished_info
               d == last.candidates[j].punished_info
           IN /\ ~is_punishment_expired(host_punisher, c, now)
              /\ ~is_punishment_expired(host_punisher, d, now)
              /\ c.failed_to_connect /\ c.continuous_punished_times = 0
              /\ ~d.failed_to_connect /\ d.continuous_punished_times = 1
              /\ last.result = Some(CandidateHandedOut(last.candidates[j]))

\* the clock moved between the probes: of two candidates the one whose
\* punishment had expired by the time of the comparison was returned
C27_ExpiredPreferred ==
    /\ FellBack
    /\ Len(last.candidates) = 2
    /\ \E i, j \in 1..2 :
           /\ is_punishment_expired(host_punisher, last.candidates[i].punished_info, now)
           /\ ~is_punishment_expired(host_punisher, last.candidates[j].punished_info, now)
           /\ last.result = Some(CandidateHandedOut(last.candidates[i]))

----------------------------------------------------------------------------
(* SpecFlush, the calls that find the lock held                            *)

\* the tasks whose last call of Dotter::dot returned without the locks
SkippedCallers == {c \in CallerIds : "skipped" \in DOMAIN callers[c]}

\* a call that finds the mutex or the advisory lock held returns at once and
\* leaves the map and the file as they are
SkipStep ==
    \A c \in CallerIds :
        (callers[c].pc = "lock" /\ callers'[c].pc # "lock" /\ (section # {} \/ file_locked)) =>
            /\ callers'[c].pc = "idle"
            /\ c \in SkippedCallers'
            /\ buffered_records' = buffered_records
            /\ buffered_file' = buffered_file
            /\ section' = section

\* the calls of the key and outcome x that the map, the file and the accepted
\* bodies stand for are the calls that were merged
Kept(x) == CountOf(CountsKept, x) = CountOf(dots_merged.merged, x)

\* C28: a call of dot that finds the in-process lock or the advisory lock
\* held skips the critical section and returns Ok without waiting, and the
\* record it merged is not dropped: it stays in the map until a flush
\* writes it to the file
C28_SkippedRecordKept ==
    /\ [][SkipStep]_vars
    /\ [](\A c \in SkippedCallers : Kept(callers[c].skipped))

\* a call returned without the locks while another process held the
\* advisory lock, and a later call flushed its record to the file
C28_LaterFlush ==
    /\ \E c \in SkippedCallers : callers[c].pc = "idle"
    /\ dots_merged.calls = 2
    /\ buffered_records = <<>>
    /\ \A x \in DOMAIN dots_merged.merged : Kept(x)
    /\ CountsOfFile(buffered_file) = dots_merged.merged


----------------------------------------------------------------------------
(* SpecTries: Dotter::new takes `tries: Option<usize>` and keeps             *)
(* tries.unwrap_or(10), so that a dotter may be built with tries = 0; one   *)
(* task dots and every spawned upload task meets any of UploadOutcomes      *)

\* the tries Dotter::new is given: none at all, or Tries
TriesGiven == {0, Tries}

\* a dotter with one monitor host that uploads a file of more than 100 bytes
InitTries ==
    /\ InitSelector(<<"h1">>, [TestPunisher EXCEPT !.max_punished_times = 0,
                                                   !.base_timeout = 1000])
    /\ \E tries \in TriesGiven : dotter_inner = DotterNew(<<"h1">>, TRUE, 10, 100, tries, 0)
    /\ overflow_checks = FALSE
    /\ InitNoUpload
    /\ dotting_disabled = FALSE
    /\ dot_uploading_disabled = FALSE
    /\ buffered_records = <<>>
    /\ buffered_file = <<>>
    /\ file_locked = FALSE
    /\ upload_tasks = 0

TriesDot == DotCalled(DotKeys, BOOLEAN, {"ok"})

TriesUpload == UploadRuns({"ok"}, UploadOutcomes)

NextTries ==
    \/ TriesDot
    \/ TriesUpload

SpecTries == InitTries /\ [][NextTries]_vars

\* the task `last` keeps took the lock, found it time to upload and called
\* do_upload
UploadEntered ==
    /\ last.op = "upload"
    /\ ~last.pre.file_locked
    /\ last.io = "ok"
    /\ is_time_to_upload(last.pre.dotting_disabled, last.pre.dot_uploading_disabled,
                         Unwrap(dotter_inner), last.pre.buffered_file, now)

\* C29: an upload none of whose attempts was answered 200 and emptied the
\* file returns Err: when its tries are exhausted, and also when it has no
\* tries at all
C29_NeverOkWithoutSuccess ==
    (UploadEntered /\ EmptyingAttempts = {}) => last.result = "Err"

\* an upload of a dotter with tries = 0: do_upload was called with lines in
\* the file, no request was sent and the result is Ok
C29_OkWithoutAttempt ==
    /\ UploadEntered
    /\ Unwrap(dotter_inner).tries = 0
    /\ Len(last.pre.buffered_file) > 0
    /\ last.attempts = <<>>
    /\ monitor.requests = last.pre.monitor.requests
    /\ buffered_file = last.pre.buffered_file
    /\ last.result = "Ok"

\* with one try or more, an upload without a successful attempt returns Err
C29_ErrAfterTries ==
    (UploadEntered /\ EmptyingAttempts = {} /\ Unwrap(dotter_inner).tries > 0) =>
        /\ Len(last.attempts) = Unwrap(dotter_inner).tries
        /\ last.result = "Err"


----------------------------------------------------------------------------
(* The declined punishment in upload_with_retry.  Dotter::new builds the    *)
(* monitor selector without should_punish_callback, so that                 *)
(* HostPunisher::should_punish answers true for every error of an attempt   *)

\* C30 (its case): no attempt of an upload is told NoPunishment by
\* punish_without_dotter; every failed attempt is punished and the loop goes
\* on while tries remain
C30_NeverDeclined ==
    last.op = "upload" =>
        /\ ~IsSome(host_punisher.should_punish_func)
        /\ \A i \in 1..Len(last.attempts) : last.attempts[i].told # "NoPunishment"


----------------------------------------------------------------------------
(* SpecTimeouts: the uploads of a dotter with one monitor host, each attempt *)
(* meeting any of TimeoutOutcomes, while the clock advances so that the     *)
(* punishment of the host expires between two uploads                       *)

TimeoutsDot == DotCalled({<<"sdk", "io_getfile">>}, {TRUE}, {"ok"})

\* what an attempt meets here: the file could not be read, the request timed
\* out, or the monitor answered 200
TimeoutOutcomes == {"read_err", "timeout", "ok"}

TimeoutsUpload == UploadRuns({"ok"}, TimeoutOutcomes)

InitTimeouts == InitDotter({<<"h1">>}, {TRUE}, {<<10, 100>>})

NextTimeouts ==
    \/ TimeoutsDot
    \/ TimeoutsUpload
    \/ UploadTick

SpecTimeouts == InitTimeouts /\ [][NextTimeouts]_vars

\* the attempts of the upload `last` keeps whose request timed out
TimedOutAttempts ==
    IF last.op = "upload"
    THEN {i \in 1..Len(last.attempts) : last.attempts[i].outcome = "timeout"}
    ELSE {}

\* C31 as stated: after an attempt that timed out the stored timeout_power of
\* its host is at least one greater than before the attempt, whatever the
\* state of the host was
C31_PowerRaisedByOne ==
    \A i \in TimedOutAttempts : last.attempts[i].power_after >= last.attempts[i].power_before + 1

\* C31: after an attempt that timed out the stored timeout_power of its host
\* is the greater of what it was and the power handed out with the host plus
\* one; it is at least one greater than before when the host was handed its
\* stored power, and as it was when the host was handed power 0 for its
\* expired punishment while it stored a power above 0
C31_PowerRaised ==
    \A i \in TimedOutAttempts :
        LET a == last.attempts[i]
        IN /\ a.power_after = Max(a.power_before, a.timeout_power + 1)
           /\ a.timeout_power \in {0, a.power_before}
           /\ a.timeout_power = a.power_before => a.power_after = a.power_before + 1
           /\ (a.timeout_power = 0 /\ a.power_before > 0) => a.power_after = a.power_before
           /\ a.told \in {"Punished", "PunishedAndFreezed"}

\* an upload whose first attempt found the host with stored power 1 and an
\* expired punishment, was handed power 0 and timed out: the power is still 1
C31_Witness ==
    /\ 1 \in TimedOutAttempts
    /\ last.attempts[1].power_before = 1
    /\ last.attempts[1].timeout_power = 0
    /\ last.attempts[1].power_after = 1

\* an attempt at a host handed out with its stored power 1 timed out and
\* left power 2
C31_Escalated ==
    \E i \in TimedOutAttempts :
        /\ last.attempts[i].timeout_power = 1
        /\ last.attempts[i].power_before = 1
        /\ last.attempts[i].power_after = 2


----------------------------------------------------------------------------
(* SpecRefresh: a registry built with an update callback.  Callers take the *)
(* counter with next_index, which spawns a refresh task when the interval   *)
(* has elapsed; one caller calls HostSelector::update_hosts by hand.  A     *)
(* step is what a task does between two awaits                              *)

\* the tasks next_index spawns and the caller of update_hosts
AutoIds == {"a1", "a2"}
ManualIds == {"m1"}

\* HostSelectorBuilder::update_interval, in ticks
UpdateInterval == 2

\* what the update callback returns: a list of hosts, an empty list, an error
CallbackResults == {[ok |-> TRUE, hosts |-> <<"h1">>], [ok |-> TRUE, hosts |-> <<"h2">>], [ok |-> TRUE, hosts |-> <<>>], [ok |-> FALSE, hosts |-> <<>>]}

\* UpdateOption::new: the mutex last_updated_at holds Instant::now(); guard is
\* the task that holds the mutex
UpdateOptionNew(interval, t) == [interval |-> interval, last_updated_at |-> t, guard |-> None]

\* last_updated_at.elapsed() >= update_option.interval
IntervalElapsed(option, t) == t - option.last_updated_at >= option.interval

\* no task is registered under id
NoTask == [pc |-> "none"]

\* the tasks between the call of the callback and the end of set_hosts
Refreshing == {id \in DOMAIN refreshers.tasks : refreshers.tasks[id].pc \in {"callback", "set_hosts"}}

InitRefresh ==
    /\ hosts = <<"h1">>
    /\ hosts_map = [h \in {"h1"} |-> DefaultPunishedInfo]
    /\ index = 0
    /\ current_timeout_power = 0
    /\ host_punisher = TestPunisher
    /\ overflow_checks = FALSE
    /\ now = 0
    /\ sel = Idle
    /\ upd = Idle
    /\ update_option = Some(UpdateOptionNew(UpdateInterval, 0))
    /\ refreshers = [tasks |-> [id \in AutoIds \cup ManualIds |-> NoTask], started |-> None, gap |-> None]
    /\ START_TIME = 0
    /\ last = NoCall
    /\ InitNoBridge
    /\ InitNoDotter

\* HostsUpdater::next_index: fetch_add on the counter, then try_to_auto_update:
\* when try_lock gets the mutex and the interval has elapsed, the guard is
\* dropped and a task is spawned.  The call waits for nothing
NextIndex ==
    /\ IsSome(update_option)
    /\ LET option == Unwrap(update_option)
           spawns == ~IsSome(option.guard) /\ IntervalElapsed(option, now)
       IN /\ spawns => \E id \in AutoIds : refreshers.tasks[id] = NoTask
          /\ index' = (index + 1) % UsizeModulus
          /\ refreshers' =
                 IF spawns
                 THEN [refreshers EXCEPT
                          !.tasks[CHOOSE id \in AutoIds : refreshers.tasks[id] = NoTask] =
                              [pc |-> "spawned"]]
                 ELSE refreshers
          /\ last' = [op |-> "next_index", result |-> index, spawned |-> spawns,
                      locked |-> IsSome(option.guard)]
    /\ UNCHANGED <<hosts, hosts_map, current_timeout_power, host_punisher, overflow_checks>>
    /\ UNCHANGED <<now, sel, upd, bridge_vars, update_option, START_TIME, dotter_vars>>

\* try_to_auto_update_in_thread: last_updated_at.lock().await, then the test
\* of the interval again: the task goes on to update_hosts or ends
AutoLocks ==
    /\ IsSome(update_option)
    /\ ~IsSome(Unwrap(update_option).guard)
    /\ \E id \in AutoIds :
           /\ refreshers.tasks[id].pc = "spawned"
           /\ IF IntervalElapsed(Unwrap(update_option), now)
              THEN /\ update_option' = Some([Unwrap(update_option) EXCEPT !.guard = Some(id)])
                   /\ refreshers' =
                          [refreshers EXCEPT
                              !.tasks[id] = [pc |-> "callback"],
                              !.started = Some(now),
                              !.gap = IF IsSome(refreshers.started)
                                      THEN Some(now - Unwrap(refreshers.started))
                                      ELSE @]
              ELSE /\ update_option' = update_option
                   /\ refreshers' = [refreshers EXCEPT !.tasks[id] = NoTask]
    /\ last' = NoCall
    /\ UNCHANGED <<selector_vars, now, sel, upd, bridge_vars, START_TIME, dotter_vars>>

\* HostSelector::update_hosts is called: HostsUpdater::update_hosts runs the
\* callback without taking the mutex
ManualCalled ==
    /\ IsSome(update_option)
    /\ \E id \in ManualIds :
           /\ refreshers.tasks[id] = NoTask
           /\ refreshers' = [refreshers EXCEPT !.tasks[id] = [pc |-> "callback"]]
    /\ last' = NoCall
    /\ UNCHANGED <<selector_vars, now, sel, upd, bridge_vars, update_option, START_TIME, dotter_vars>>

\* (update_option.func)().await returns: a list that is not empty goes to
\* set_hosts, anything else makes update_hosts false
CallbackReturns ==
    /\ IsSome(update_option)
    /\ \E id \in DOMAIN refreshers.tasks, result \in CallbackResults :
           /\ refreshers.tasks[id].pc = "callback"
           /\ refreshers' =
                  [refreshers EXCEPT
                      !.tasks[id] = IF result.ok /\ result.hosts # <<>>
                                    THEN [pc |-> "set_hosts", new_hosts |-> result.hosts]
                                    ELSE [pc |-> "updated", result |-> FALSE]]
    /\ last' = NoCall
    /\ UNCHANGED <<selector_vars, now, sel, upd, bridge_vars, update_option, START_TIME, dotter_vars>>

\* self.set_hosts(new_hosts).await, here in one step
RefreshSetsHosts ==
    /\ IsSome(update_option)
    /\ \E id \in DOMAIN refreshers.tasks :
           /\ refreshers.tasks[id].pc = "set_hosts"
           /\ \E shuffled \in Shuffles(refreshers.tasks[id].new_hosts) :
                  /\ hosts_map' = set_hosts_map(hosts_map, refreshers.tasks[id].new_hosts)
                  /\ hosts' = shuffled
           /\ refreshers' = [refreshers EXCEPT !.tasks[id] = [pc |-> "updated", result |-> TRUE]]
    /\ last' = NoCall
    /\ UNCHANGED <<index, current_timeout_power, host_punisher, overflow_checks>>
    /\ UNCHANGED <<now, sel, upd, bridge_vars, update_option, START_TIME, dotter_vars>>

\* the end of try_to_auto_update_in_thread: whatever update_hosts returned,
\* last_updated_at is set to now and the guard is dropped
AutoStamps ==
    /\ IsSome(update_option)
    /\ \E id \in AutoIds :
           /\ refreshers.tasks[id].pc = "updated"
           /\ update_option' = Some([Unwrap(update_option) EXCEPT
                                        !.last_updated_at = now, !.guard = None])
           /\ refreshers' = [refreshers EXCEPT !.tasks[id] = NoTask]
           /\ last' = [op |-> "auto_update", result |-> refreshers.tasks[id].result]
    /\ UNCHANGED <<selector_vars, now, sel, upd, bridge_vars, START_TIME, dotter_vars>>

\* the end of HostSelector::update_hosts: after a successful update it waits
\* for the mutex and sets last_updated_at to now; it returns what
\* HostsUpdater::update_hosts returned
ManualReturns ==
    /\ IsSome(update_option)
    /\ \E id \in ManualIds :
           /\ refreshers.tasks[id].pc = "updated"
           /\ IF refreshers.tasks[id].result
              THEN /\ ~IsSome(Unwrap(update_option).guard)
                   /\ update_option' = Some([Unwrap(update_option) EXCEPT !.last_updated_at = now])
              ELSE update_option' = update_option
           /\ refreshers' = [refreshers EXCEPT !.tasks[id] = NoTask]
           /\ last' = [op |-> "update_hosts", result |-> refreshers.tasks[id].result]
    /\ UNCHANGED <<selector_vars, now, sel, upd, bridge_vars, START_TIME, dotter_vars>>

\* the monotonic clock advances, up to MaxRefreshTime
RefreshTick ==
    /\ now < MaxRefreshTime
    /\ now' = now + 1
    /\ last' = NoCall
    /\ UNCHANGED <<selector_vars, task_vars, dotter_vars>>

NextRefresh ==
    \/ NextIndex
    \/ AutoLocks
    \/ ManualCalled
    \/ CallbackReturns
    \/ RefreshSetsHosts
    \/ AutoStamps
    \/ ManualReturns
    \/ RefreshTick

SpecRefresh == InitRefresh /\ [][NextRefresh]_vars

\* C32: at most one refresh, the call of the callback followed by set_hosts,
\* is in progress at any time, whatever the interleaving of next_index, the
\* spawned tasks and the manual update_hosts; and two refreshes the registry
\* starts by itself are at least update_interval apart
C32_OneRefresh ==
    /\ Cardinality(Refreshing) <= 1
    /\ IsSome(refreshers.gap) => Unwrap(refreshers.gap) >= Unwrap(update_option).interval

\* a spawned task and the caller of update_hosts are both between the call
\* of the callback and the end of set_hosts
C32_TwoRefreshing ==
    /\ \E id \in AutoIds : id \in Refreshing
    /\ \E id \in ManualIds : id \in Refreshing

\* the refreshes the registry starts by itself exclude each other, the task
\* inside one holds the mutex, and two of them are at least update_interval
\* apart
C32_AutoRefresh ==
    /\ Cardinality(Refreshing \cap AutoIds) <= 1
    /\ \A id \in Refreshing \cap AutoIds : Unwrap(update_option).guard = Some(id)
    /\ IsSome(refreshers.gap) => Unwrap(refreshers.gap) >= Unwrap(update_option).interval

\* a second refresh the registry started by itself, UpdateInterval or more
\* after the first
C32_SecondAutoRefresh == IsSome(refreshers.gap)

\* next_index returned while a refresh held the mutex
C32_NextIndexWhileLocked == last.op = "next_index" /\ last.locked


----------------------------------------------------------------------------
(* SpecCancel: the sync bridge with callers that do not get to their park   *)
(* loop.  execute_request sends the message and then calls block_on, which  *)
(* begins with enter(): in a build with debug assertions it builds and      *)
(* drops a shell runtime and panics when the thread is inside a runtime.    *)
(* The unwinding drops the oneshot receiver while the request is in flight  *)

\* enter() panics in block_on: the message was sent, the receiver is dropped
EnterPanics(c) ==
    /\ clients[c].pc = "parked"
    /\ ~oneshots[NextRequestId(c)].rx_dropped
    /\ clients' = [clients EXCEPT ![c] = [@ EXCEPT !.pc = "panicked"]]
    /\ oneshots' = [oneshots EXCEPT ![NextRequestId(c)] = [@ EXCEPT !.rx_dropped = TRUE]]
    /\ last' = NoCall
    /\ UNCHANGED <<request_channel, worker, inner_drop>>
    /\ UNCHANGED <<selector_vars, now, sel, upd, refresh_vars, START_TIME, dotter_vars>>

\* the unwinding of a panicked thread drops its clone of the handle, with
\* RangeReaderHandleInner::drop when it is the last one
UnwindDrops(c) ==
    /\ clients[c].pc = "panicked"
    /\ clients' = [clients EXCEPT ![c] = [@ EXCEPT !.pc = "dropped"]]
    /\ IF LiveClones = {c}
       THEN /\ request_channel' = [request_channel EXCEPT !.senders = 0]
            /\ inner_drop' = [pc |-> "joining", thread |-> c]
       ELSE UNCHANGED <<request_channel, inner_drop>>
    /\ last' = NoCall
    /\ UNCHANGED <<oneshots, worker>>
    /\ UNCHANGED <<selector_vars, now, sel, upd, refresh_vars, START_TIME, dotter_vars>>

NextCancel ==
    \/ \E c \in BridgeCallers : ExecuteRequest(c)
    \/ WorkerRecv
    \/ WorkerExits
    \/ Forward
    \/ \E c \in BridgeCallers : RequestReturns(c)
    \/ \E c \in BridgeCallers : DropHandle(c)
    \/ DropJoins
    \/ \E c \in BridgeCallers : EnterPanics(c)
    \/ \E c \in BridgeCallers : UnwindDrops(c)

SpecCancel == InitBridge /\ [][NextCancel]_vars

\* the requests whose task forward has ended while the runtime thread is in
\* its loop: the message was received and the task is no longer among the tasks
ForwardEnded ==
    {id \in DOMAIN oneshots :
        /\ worker.pc = "recv"
        /\ \A i \in 1..Len(request_channel.queue) : request_channel.queue[i].tx # id
        /\ \A task \in worker.tasks : task.tx # id}

\* C33 as stated: a task whose reply channel was closed before it completed
\* runs to completion all the same, the reader answers its request, and
\* only the result is discarded
C33_RunsToCompletion ==
    \A id \in ForwardEnded : oneshots[id].rx_dropped => id \in DOMAIN worker.answered

\* C33: a task is given up only when its reply channel is closed while the
\* future of the request is pending: the future is dropped where it is and
\* nothing is sent; a task whose future is ready at the poll after the close
\* has run to completion and its result is discarded; a task whose reply
\* channel is open is never given up
C33_CanceledWhenClosed ==
    /\ \A id \in worker.canceled :
           /\ oneshots[id].rx_dropped
           /\ id \notin DOMAIN worker.answered
           /\ oneshots[id].sends = 0
           /\ ~IsSome(oneshots[id].value)
    /\ \A id \in ForwardEnded :
           /\ id \in worker.canceled \/ id \in DOMAIN worker.answered
           /\ (id \in DOMAIN worker.answered /\ ~IsSome(oneshots[id].value)) =>
                  /\ oneshots[id].rx_dropped
                  /\ oneshots[id].sends = 1
           /\ ~oneshots[id].rx_dropped => id \in DOMAIN worker.answered

\* the request of t1 was given up part-way after t1 panicked, while the
\* request of t2 was answered and t2 got the response
C33_Witness ==
    /\ <<"t1", 1>> \in worker.canceled
    /\ clients["t1"].pc = "panicked"
    /\ <<"t2", 1>> \in DOMAIN worker.answered
    /\ clients["t2"].reads = 1

\* the request of t1 ran to completion after t1 panicked and its result was
\* discarded
C33_Discarded ==
    /\ <<"t1", 1>> \in DOMAIN worker.answered
    /\ <<"t1", 1>> \in ForwardEnded
    /\ oneshots[<<"t1", 1>>].rx_dropped
    /\ ~IsSome(oneshots[<<"t1", 1>>].value)


----------------------------------------------------------------------------
(* SpecPark: block_on step by step.  The caller polls the oneshot receiver, *)
(* which registers the waker of its thread when the value is not there, and *)
(* parks; the task forward stores the value and wakes the registered waker, *)
(* which unparks the thread.  std::thread::park returns at once when the    *)
(* token of the thread is set, and may return spuriously                    *)

\* the oneshot channel of the request the call of c waits for
ReplyOf(c) == oneshots[NextRequestId(c)]

\* an unpark that is lost on a thread that is not parked
unpark_without_token(client) ==
    IF client.at = "blocked" THEN [client EXCEPT !.at = "poll", !.via = "unpark"]
    ELSE client

\* Thread::unpark: a parked thread goes on, otherwise the token is set
unpark(client) ==
    IF client.at = "blocked" THEN [client EXCEPT !.at = "poll", !.via = "unpark"]
    ELSE [client EXCEPT !.token = TRUE]

\* the position each caller reads at
ParkPosition(c) == IF c = "t1" THEN 0 ELSE 1

\* what the reader does with a request: the bytes at position 0 are there,
\* a read past them fails
ParkOutcome(request) == IF request.pos = 0 THEN "ok" ELSE "err"

\* the callers hold their clones; none is inside block_on
InitPark ==
    /\ InitHosts(<<"h1">>, TestPunisher)
    /\ overflow_checks = FALSE
    /\ InitNoDotter
    /\ clients = [c \in BridgeCallers |->
                     [pc |-> "idle", reads |-> 0, request |-> None,
                      at |-> "poll", token |-> FALSE, via |-> "poll"]]
    /\ request_channel = [senders |-> 1, queue |-> <<>>]
    /\ oneshots = <<>>
    /\ worker = [pc |-> "recv", tasks |-> {}, answered |-> <<>>, canceled |-> {}, waking |-> {}]
    /\ inner_drop = [pc |-> "none"]

\* fut.as_mut().poll(&mut cx) in the loop of block_on: Ready returns the
\* response out of execute_request; Pending leaves the waker in the channel
BlockOnPoll(c) ==
    /\ clients[c].pc = "parked"
    /\ clients[c].at = "poll"
    /\ IF IsSome(ReplyOf(c).value)
       THEN /\ clients' = [clients EXCEPT ![c] = [@ EXCEPT !.pc = "idle", !.reads = @ + 1]]
            /\ oneshots' = [oneshots EXCEPT ![NextRequestId(c)] = [@ EXCEPT !.rx_dropped = TRUE]]
            /\ last' = [op |-> "execute_request", caller |-> c, id |-> NextRequestId(c),
                        request |-> Unwrap(clients[c].request),
                        response |-> Unwrap(ReplyOf(c).value), via |-> clients[c].via]
       ELSE /\ clients' = [clients EXCEPT ![c] = [@ EXCEPT !.at = "park"]]
            /\ oneshots' = [oneshots EXCEPT ![NextRequestId(c)] = [@ EXCEPT !.rx_task = TRUE]]
            /\ last' = NoCall
    /\ UNCHANGED <<request_channel, worker, inner_drop>>
    /\ UNCHANGED <<selector_vars, now, sel, upd, refresh_vars, START_TIME, dotter_vars>>

\* park_thread() after a Pending poll: the token is consumed and the thread
\* goes on, or the thread blocks
BlockOnPark(c) ==
    /\ clients[c].pc = "parked"
    /\ clients[c].at = "park"
    /\ clients' = [clients EXCEPT
                      ![c] = IF @.token
                             THEN [@ EXCEPT !.token = FALSE, !.at = "poll", !.via = "token"]
                             ELSE [@ EXCEPT !.at = "blocked"]]
    /\ last' = NoCall
    /\ UNCHANGED <<request_channel, oneshots, worker, inner_drop>>
    /\ UNCHANGED <<selector_vars, now, sel, upd, refresh_vars, START_TIME, dotter_vars>>

\* park returns without an unpark
SpuriousWakeup(c) ==
    /\ clients[c].pc = "parked"
    /\ clients[c].at = "blocked"
    /\ clients' = [clients EXCEPT ![c] = [@ EXCEPT !.at = "poll", !.via = "spurious"]]
    /\ last' = NoCall
    /\ UNCHANGED <<request_channel, oneshots, worker, inner_drop>>
    /\ UNCHANGED <<selector_vars, now, sel, upd, refresh_vars, START_TIME, dotter_vars>>

\* forward: the future of the request is ready and tx.send(result) stores
\* the value; the waker the receiver registered is to be woken
ForwardSends ==
    /\ worker.pc = "recv"
    /\ \E task \in worker.tasks : \E outcome \in {ParkOutcome(task.request)} :
           /\ worker' = [worker EXCEPT
                            !.tasks = @ \ {task},
                            !.answered = [id \in DOMAIN @ \cup {task.tx} |->
                                             IF id = task.tx
                                             THEN RequestSend(task.request, outcome)
                                             ELSE @[id]],
                            !.waking = IF oneshots[task.tx].rx_task
                                       THEN @ \cup {task.tx[1]} ELSE @]
           /\ oneshots' = oneshot_send(oneshots, task.tx, RequestSend(task.request, outcome))
    /\ last' = NoCall
    /\ UNCHANGED <<clients, request_channel, inner_drop>>
    /\ UNCHANGED <<selector_vars, now, sel, upd, refresh_vars, START_TIME, dotter_vars>>

\* ThreadWaker::wake_by_ref: arc_self.0.unpark()
WakeByRef ==
    /\ \E c \in worker.waking :
           /\ clients' = [clients EXCEPT ![c] = unpark(@)]
           /\ worker' = [worker EXCEPT !.waking = @ \ {c}]
    /\ last' = NoCall
    /\ UNCHANGED <<request_channel, oneshots, inner_drop>>
    /\ UNCHANGED <<selector_vars, now, sel, upd, refresh_vars, START_TIME, dotter_vars>>

NextPark ==
    \/ \E c \in BridgeCallers :
           ExecuteRequest(c) /\ clients'[c].request = Some(ReadAtRequest(ParkPosition(c)))
    \/ WorkerRecv
    \/ ForwardSends
    \/ WakeByRef
    \/ \E c \in BridgeCallers : BlockOnPoll(c)
    \/ \E c \in BridgeCallers : BlockOnPark(c)
    \/ \E c \in BridgeCallers : SpuriousWakeup(c)

\* the threads and the runtime thread are scheduled; no spurious wake-up is
\* relied on
SpecPark ==
    /\ InitPark
    /\ [][NextPark]_vars
    /\ WF_vars(WorkerRecv)
    /\ WF_vars(ForwardSends)
    /\ WF_vars(WakeByRef)
    /\ \A c \in BridgeCallers : WF_vars(BlockOnPoll(c)) /\ WF_vars(BlockOnPark(c))

\* c is inside block_on
Blocked(c) == clients[c].pc = "parked"

\* the reply of the request c waits for was sent
ReplySent(c) == Blocked(c) /\ IsSome(ReplyOf(c).value)

\* C34: a caller inside block_on whose reply was sent returns the result:
\* it is never parked with the reply in the channel, no token and no wake
\* on its way, and every request sent through the handle is answered to
\* its caller
C34_CallerReturns ==
    /\ [](\A c \in BridgeCallers :
             (ReplySent(c) /\ clients[c].at = "blocked") => c \in worker.waking)
    /\ [](last.op = "execute_request" => last.response = worker.answered[last.id])
    /\ \A c \in BridgeCallers : ReplySent(c) ~> ~Blocked(c)
    /\ \A c \in BridgeCallers : Blocked(c) ~> ~Blocked(c)

\* the reply of t1 was sent between its Pending poll and its park: the park
\* found the token and t1 returned
C34_Witness ==
    /\ last.op = "execute_request"
    /\ last.caller = "t1"
    /\ last.via = "token"

\* t1 returned after it was unparked out of its park
C34_Unparked ==
    /\ last.op = "execute_request"
    /\ last.via = "unpark"


----------------------------------------------------------------------------
(* SpecReqId: the download start time and the request ids.  A SystemTime   *)
(* is the number of nanoseconds after the epoch, negative before it         *)

\* the times handed to the functions: before the epoch, whole milliseconds
\* and one nanosecond before the next millisecond
ReqTimes ==
    {-1} \cup {ms * NanosPerMilli + frac : ms \in 0..MaxReqMillis, frac \in {0, NanosPerMilli - 1}}

\* t.duration_since(UNIX_EPOCH).map_or(0, |n| n.as_nanos())
as_nanos(t) == IF t < 0 THEN 0 ELSE t

\* t.duration_since(UNIX_EPOCH)
\*     .map_or(0, |n| n.as_millis().try_into().unwrap_or(u64::MAX))
as_millis_u64(t) ==
    IF t < 0 THEN 0
    ELSE IF t \div NanosPerMilli < U64Modulus THEN t \div NanosPerMilli
    ELSE U64Modulus - 1

\* a - b on unsigned integers of the given modulus: the build that checks
\* overflow panics on a < b, the other wraps
unsigned_sub(a, b, modulus, checks) ==
    IF a >= b THEN [panicked |-> FALSE, value |-> a - b]
    ELSE IF checks THEN [panicked |-> TRUE]
    ELSE [panicked |-> FALSE, value |-> (a - b) % modulus]

\* total_download_duration: Duration::from_millis(end_time - START_TIME)
total_download_duration(t, start_time, checks) ==
    unsigned_sub(as_millis_u64(t), start_time, U64Modulus, checks)

\* get_start_time_and_delta: end_time - u128::from(start_time) * 1000 * 1000
get_start_time_and_delta(tn, start_time, checks) ==
    unsigned_sub(as_nanos(tn), start_time * NanosPerMilli, U128Modulus, checks)

\* no download has started; either build
InitReqId ==
    /\ InitHosts(<<"h1">>, TestPunisher)
    /\ overflow_checks \in BOOLEAN
    /\ InitNoDotter
    /\ InitNoBridge

\* set_download_start_time(t)
SetDownloadStartTime ==
    /\ \E t \in ReqTimes :
           /\ START_TIME' = as_millis_u64(t)
           /\ last' = [op |-> "set_download_start_time", t |-> t]
    /\ UNCHANGED <<selector_vars, now, sel, upd, bridge_vars, refresh_vars, dotter_vars>>

\* total_download_duration(t)
TotalDownloadDuration ==
    /\ \E t \in ReqTimes :
           last' = [op |-> "total_download_duration", t |-> t, start_time |-> START_TIME,
                    result |-> total_download_duration(t, START_TIME, overflow_checks)]
    /\ UNCHANGED <<selector_vars, now, task_vars, dotter_vars>>

\* get_req_id(tn, ..): the start time and the delta of the request id
GetStartTimeAndDelta ==
    /\ \E tn \in ReqTimes :
           last' = [op |-> "get_start_time_and_delta", t |-> tn, start_time |-> START_TIME,
                    result |-> get_start_time_and_delta(tn, START_TIME, overflow_checks)]
    /\ UNCHANGED <<selector_vars, now, task_vars, dotter_vars>>

NextReqId ==
    \/ SetDownloadStartTime
    \/ TotalDownloadDuration
    \/ GetStartTimeAndDelta

SpecReqId == InitReqId /\ [][NextReqId]_vars

\* C35: the duration is t_ms - start_time_ms and the delta of the request id
\* is t_ns - start_time_ms * 10^6 for every start time and every t, also for
\* a t before the start time; neither subtraction underflows or wraps
C35_NoUnderflow ==
    /\ last.op = "total_download_duration" =>
           /\ ~last.result.panicked
           /\ last.result.value = as_millis_u64(last.t) - last.start_time
    /\ last.op = "get_start_time_and_delta" =>
           /\ ~last.result.panicked
           /\ last.result.value = as_nanos(last.t) - last.start_time * NanosPerMilli

\* the two results are the differences whenever t is not before the start
\* time
C35_DifferenceFromStart ==
    /\ (last.op = "total_download_duration" /\ as_millis_u64(last.t) >= last.start_time) =>
           /\ ~last.result.panicked
           /\ last.result.value = as_millis_u64(last.t) - last.start_time
    /\ (last.op = "get_start_time_and_delta" /\ as_nanos(last.t) >= last.start_time * NanosPerMilli) =>
           /\ ~last.result.panicked
           /\ last.result.value = as_nanos(last.t) - last.start_time * NanosPerMilli

\* total_download_duration of a time before the start time wrapped around
C35_Wrapped ==
    /\ last.op = "total_download_duration"
    /\ as_millis_u64(last.t) < last.start_time
    /\ ~last.result.panicked

\* get_start_time_and_delta of a time before the start time panicked
C35_Panicked ==
    /\ last.op = "get_start_time_and_delta"
    /\ as_nanos(last.t) < last.start_time * NanosPerMilli
    /\ last.result.panicked


----------------------------------------------------------------------------
(* SpecAggregate: calls of dot for one key with different elapsed times,    *)
(* flushed line by line and uploaded in one or more bodies, which the       *)
(* monitor of test_dotter_dot_something merges into its own map             *)

\* the elapsed milliseconds of the calls
AggregateElapsed == {0, 1, 2}

\* the key the calls are made for
AggregateKey == <<"sdk", "io_getfile">>

\* AsyncDotRecordsMap::merge_with_records: the records of a body, one after
\* another
RECURSIVE merge_with_records(_, _)
merge_with_records(records, body) ==
    IF Len(body) = 0 THEN records
    ELSE merge_with_records(merge_with_record(records, Head(body)), Tail(body))

\* the map of the monitor after the bodies it answered 200 to
RECURSIVE MonitorRecords(_, _)
MonitorRecords(records, bodies) ==
    IF Len(bodies) = 0 THEN records
    ELSE MonitorRecords(merge_with_records(records, Head(bodies)), Tail(bodies))

\* a dotter that uploads as soon as a tick has passed
InitAggregate == InitDotter({<<"h1">>}, {TRUE}, {<<0, 1048576>>})

\* dotter.dot(Sdk, IoGetfile, true, elapsed)
AggregateDot ==
    /\ dots_merged.calls < MaxAggregateDots
    /\ \E elapsed \in AggregateElapsed :
           DotterCalled("dot", fast_dot(AggregateKey[1], AggregateKey[2], TRUE, elapsed), "ok")

\* an upload task the monitor answers 200 to
AggregateUpload == UploadRuns({"ok"}, {"ok"})

NextAggregate ==
    \/ AggregateDot
    \/ AggregateUpload
    \/ UploadTick

SpecAggregate == InitAggregate /\ [][NextAggregate]_vars

\* every call made for the key was uploaded: none is in the map or the file
AggregateSettled ==
    /\ CountOf(dots_merged.merged, <<AggregateKey[1], AggregateKey[2], TRUE>>) > 0
    /\ CountOf(dots_merged.pending, <<AggregateKey[1], AggregateKey[2], TRUE>>) = 0
    /\ CountOf(dots_merged.flushed, <<AggregateKey[1], AggregateKey[2], TRUE>>) = 0

\* C36: once every call of the key is uploaded, the record of the monitor
\* has the number of the successful calls as success_count and the floor of
\* the arithmetic mean of their elapsed milliseconds as success_avg, in
\* whatever order the calls were merged and however they were split
C36_MeanOfCalls ==
    AggregateSettled =>
        LET records == MonitorRecords(<<>>, monitor.accepted)
            made == CountOf(dots_merged.merged, <<AggregateKey[1], AggregateKey[2], TRUE>>)
            total == CountOf(dots_merged.elapsed, <<AggregateKey[1], AggregateKey[2], TRUE>>)
        IN /\ AggregateKey \in DOMAIN records
           /\ records[AggregateKey].success_count = made
           /\ records[AggregateKey].failed_count = 0
           /\ records[AggregateKey].success_avg_elapsed_duration = total \div made
           /\ records[AggregateKey].failed_avg_elapsed_duration = 0

\* the counts of the monitor are the numbers of the calls when the calls do
\* not overlap
C36_CountsOfCalls ==
    AggregateSettled =>
        LET records == MonitorRecords(<<>>, monitor.accepted)
        IN /\ AggregateKey \in DOMAIN records
           /\ records[AggregateKey].success_count
                  = CountOf(dots_merged.merged, <<AggregateKey[1], AggregateKey[2], TRUE>>)
           /\ records[AggregateKey].failed_count = 0

\* three calls were uploaded in two bodies
C36_SplitAcrossUploads ==
    /\ AggregateSettled
    /\ Len(monitor.accepted) = 2
    /\ CountOf(dots_merged.merged, <<AggregateKey[1], AggregateKey[2], TRUE>>) = 3


----------------------------------------------------------------------------
(* SpecBuild: select_host on the selectors HostSelectorBuilder::build makes *)
(* of a list of hosts, empty or not, and of an update callback or none      *)

\* the lists of hosts the builder is made with
BuilderHosts == {<<>>, <<"h1", "h2">>}

\* the update callback of the builder: none, or one with the result it gives
BuilderCallbacks == {None} \cup {Some(r) : r \in CallbackResults}

\* the hosts after build: with a callback and no hosts, update_hosts is
\* called once, and sets the hosts the callback returned unless it failed or
\* returned none
build(hs, update_func) ==
    IF /\ IsSome(update_func)
       /\ Len(hs) = 0
       /\ Unwrap(update_func).ok
       /\ Len(Unwrap(update_func).hosts) > 0
    THEN Unwrap(update_func).hosts
    ELSE hs

\* a selector as build returns it
InitBuild ==
    /\ \E hs \in BuilderHosts, update_func \in BuilderCallbacks :
           /\ hosts \in Shuffles(build(hs, update_func))
           /\ hosts_map = [h \in Range(build(hs, update_func)) |-> DefaultPunishedInfo]
           /\ update_option = IF IsSome(update_func)
                              THEN Some(UpdateOptionNew(UpdateInterval, 0))
                              ELSE None
    /\ index = 0
    /\ current_timeout_power = 0
    /\ host_punisher = [TestPunisher EXCEPT !.max_punished_times = 0]
    /\ overflow_checks = FALSE
    /\ now = 0
    /\ sel = Idle
    /\ upd = Idle
    /\ refreshers = <<>>
    /\ START_TIME = 0
    /\ last = NoCall
    /\ InitNoBridge
    /\ InitNoDotter

NextBuild ==
    \/ Calls(RegistryHosts, host_punisher.max_punished_times + 1, MaxQuietPowerArg)
    \/ SelectHost

SpecBuild == InitBuild /\ [][NextBuild]_vars

\* C37: select_host never aborts; on every sequence of hosts, the empty one
\* included, it returns Some or None
C37_NeverAborts ==
    last.op = "select_host" => ~last.panicked

\* select_host returns on every sequence that is not empty
C37_ReturnsOnHosts ==
    (last.op = "select_host" /\ Len(hosts) > 0) => ~last.panicked

\* select_host was called on a selector whose callback returned no host
C37_EmptyAfterCallback ==
    /\ last.op = "select_host"
    /\ Len(hosts) = 0
    /\ IsSome(update_option)
    /\ last.panicked


----------------------------------------------------------------------------
(* SpecFrame: the calls that update the registry and select_host on two     *)
(* registered hosts; each step is compared with the state before it         *)

InitFrame ==
    /\ InitSelector(<<"h1", "h2">>, [TestPunisher EXCEPT !.max_punished_times = 0])
    /\ overflow_checks = FALSE
    /\ InitNoDotter

\* one call that updates the state of a host; a host is punished at most
\* MaxFramePunished times in a row
FrameCall ==
    \E host \in RegistryHosts :
        \/ /\ reward(host)
           /\ last' = [op |-> "reward", host |-> host]
        \/ /\ PunishedBelow(host, MaxFramePunished)
           /\ punish_without_dotter(host, "timeout")
           /\ last' = [op |-> "punish_without_dotter", host |-> host]
        \/ /\ \E p \in 0..MaxQuietPowerArg : increase_timeout_power_by(host, p)
           /\ last' = [op |-> "increase_timeout_power_by", host |-> host]
        \/ /\ mark_connection_as_failed(host)
           /\ last' = [op |-> "mark_connection_as_failed", host |-> host]

\* select_host with nothing tried or with h1 tried
FrameSelect ==
    \E tried \in {{}, {"h1"}} :
        /\ select_host(tried)
        /\ last' = [op |-> "select_host", tried |-> tried]

NextFrame ==
    \/ FrameCall
    \/ FrameSelect
    \/ Tick

SpecFrame == InitFrame /\ [][NextFrame]_vars

\* the calls that update the state of one host
UpdateOps ==
    {"reward", "punish_without_dotter", "increase_timeout_power_by", "mark_connection_as_failed"}

\* what the step that ends in `last'` left alone: an update leaves the
\* sequence and every other host alone, and of its own host the fields that
\* are not its own; select_host leaves the sequence and every host alone
FrameOfStep ==
    /\ last'.op \in UpdateOps =>
           /\ hosts' = hosts
           /\ DOMAIN hosts_map' = DOMAIN hosts_map
           /\ \A h \in DOMAIN hosts_map : h # last'.host => hosts_map'[h] = hosts_map[h]
    /\ (last'.op = "reward" /\ last'.host \in DOMAIN hosts_map) =>
           hosts_map'[last'.host].last_punished_at = hosts_map[last'.host].last_punished_at
    /\ (last'.op = "punish_without_dotter" /\ last'.host \in DOMAIN hosts_map) =>
           /\ hosts_map'[last'.host].timeout_power = hosts_map[last'.host].timeout_power
           /\ hosts_map'[last'.host].failed_to_connect = hosts_map[last'.host].failed_to_connect
    /\ (last'.op = "increase_timeout_power_by" /\ last'.host \in DOMAIN hosts_map) =>
           /\ hosts_map'[last'.host].continuous_punished_times
                  = hosts_map[last'.host].continuous_punished_times
           /\ hosts_map'[last'.host].failed_to_connect = hosts_map[last'.host].failed_to_connect
    /\ (last'.op = "mark_connection_as_failed" /\ last'.host \in DOMAIN hosts_map) =>
           /\ hosts_map'[last'.host].timeout_power = hosts_map[last'.host].timeout_power
           /\ hosts_map'[last'.host].continuous_punished_times
                  = hosts_map[last'.host].continuous_punished_times
    /\ last'.op = "select_host" =>
           /\ hosts' = hosts
           /\ hosts_map' = hosts_map

\* C38: reward, punish, increase_timeout_power_by and mark_connection_as_failed
\* change only the fields they own of the host they are called with, no
\* other host and not the sequence; select_host changes no state of a host
C38_FrameEffects == [][FrameOfStep]_vars

\* h1 was rewarded while it held the time of a punishment, and h2 held a
\* state that is not the default
C38_Witness ==
    /\ last.op = "reward"
    /\ last.host = "h1"
    /\ IsSome(hosts_map["h1"].last_punished_at)
    /\ hosts_map["h2"] # DefaultPunishedInfo

\* select_host ran while both hosts were punished
C38_SelectAmongPunished ==
    /\ last.op = "select_host"
    /\ \A h \in DOMAIN hosts_map : hosts_map[h].continuous_punished_times > 0


----------------------------------------------------------------------------
(* SpecTruncate: the tasks of SpecFlush, with the closure of do_upload in   *)
(* two steps, the read of the file into the request body and, after the    *)
(* answer of the monitor, set_len(0); another process that takes the        *)
(* advisory lock appends lines of its own to the file; no upload task      *)
(* starts once the monitor was sent MaxRequests requests                    *)

\* the line another process writes
OtherLine == to_string(fast_dot("http", "io_getfile", TRUE, 0))

\* make_request_body inside the closure of do_upload: the file is opened and
\* its lines are read into the body of the request
UploadReads ==
    /\ Len(uploader) = 1
    /\ "read" \notin DOMAIN uploader[1]
    /\ uploader' = <<[left |-> uploader[1].left, read |-> buffered_file]>>
    /\ last' = NoCall
    /\ UNCHANGED <<selector_vars, now, task_vars>>
    /\ UNCHANGED <<dotting_disabled, dot_uploading_disabled, dotter_inner, buffered_records,
                   buffered_file, file_locked, upload_tasks>>
    /\ UNCHANGED <<records_map, callers, section, monitor, dots_merged>>

\* the rest of the turn: the request with the body that was read, the
\* answer, and set_len(0) on the file as it is now when the answer is 200;
\* after the last turn the guards are dropped
UploadTruncates ==
    /\ Len(uploader) = 1
    /\ "read" \in DOMAIN uploader[1]
    /\ \E outcome \in AnsweredOutcomes :
        \E next \in {upload_turn(UploadStart(hosts_map, index, current_timeout_power,
                                             buffered_records, uploader[1].read, monitor),
                                 hosts, host_punisher, overflow_checks, now, outcome)} :
           /\ hosts_map' = next.hosts_map
           /\ index' = next.index
           /\ current_timeout_power' = next.current_timeout_power
           /\ buffered_records' = next.buffered_records
           /\ buffered_file' = IF outcome = "ok" THEN <<>> ELSE buffered_file
           /\ monitor' = next.monitor
           /\ dots_merged' = [dots_merged EXCEPT
                                  !.merged = AddCounts(@, AttemptCounts(next.attempts))]
           /\ IF next.returned \/ uploader[1].left = 1
              THEN /\ uploader' = <<>>
                   /\ section' = section \ {UploadTask}
              ELSE /\ uploader' = <<[left |-> uploader[1].left - 1]>>
                   /\ section' = section
           /\ last' = [op |-> "truncate", outcome |-> outcome, read |-> uploader[1].read,
                       file_before |-> buffered_file]
    /\ UNCHANGED <<hosts, host_punisher, overflow_checks, now, task_vars>>
    /\ UNCHANGED <<dotting_disabled, dot_uploading_disabled, dotter_inner, file_locked,
                   upload_tasks>>
    /\ UNCHANGED <<records_map, callers>>

\* the process that holds the advisory lock flushes a record of its own
OtherProcessAppends ==
    /\ file_locked
    /\ Len(buffered_file) < MaxOtherLines
    /\ buffered_file' = Append(buffered_file, OtherLine)
    /\ last' = NoCall
    /\ UNCHANGED <<selector_vars, now, task_vars>>
    /\ UNCHANGED <<dotting_disabled, dot_uploading_disabled, dotter_inner, buffered_records,
                   file_locked, upload_tasks, upload_vars>>

NextTruncate ==
    \/ \E c \in CallerIds : DotMerges(c)
    \/ \E c \in CallerIds : DotLocks(c)
    \/ \E c \in CallerIds : FlushScans(c)
    \/ \E c \in CallerIds : FlushRemoves(c)
    \/ monitor.requests < MaxRequests /\ UploadStarts
    \/ UploadReads
    \/ UploadTruncates
    \/ OtherProcessTakesLock
    \/ OtherProcessAppends

SpecTruncate == InitFlush /\ [][NextTruncate]_vars

\* C39: from the read of the file into the body to set_len(0) no line is
\* appended to the file, by a flush of this process or by a process that
\* holds the advisory lock: the lines set_len(0) discards are the lines of
\* the body
C39_OnlyUploadedDiscarded ==
    /\ (Len(uploader) = 1 /\ "read" \in DOMAIN uploader[1]) =>
           buffered_file = uploader[1].read
    /\ last.op = "truncate" => last.file_before = last.read

\* the monitor answered 200 to a body of lines of this process and of the
\* other, the file was emptied, and meanwhile a task had merged a record
\* and found the file locked
C39_Witness ==
    /\ last.op = "truncate"
    /\ last.outcome = "ok"
    /\ Len(last.read) > 1
    /\ \E i \in 1..Len(last.read) : last.read[i] = OtherLine
    /\ buffered_file = <<>>
    /\ \E c \in CallerIds : "skipped" \in DOMAIN callers[c]
    /\ <<"sdk", "io_getfile">> \in DOMAIN buffered_records


----------------------------------------------------------------------------
(* The upload tasks of SpecFlush.  The dotter of InitFlush uploads a file   *)
(* of more than 100 bytes, so every flush that leaves a line in the file    *)
(* finds the trigger true and spawns an upload task                         *)

\* the monitor answered 200 to every request it was sent
MonitorAnswers200 == monitor.requests = Len(monitor.accepted)

\* C40: the upload task a critical section schedules takes the locks and
\* uploads, so that with a monitor that answers 200 the lines of the file
\* are uploaded and the file is emptied without a further call: once every
\* call has returned and every upload task has ended, the file is empty
C40_UploadedWhenQuiet ==
    (Quiescent /\ MonitorAnswers200) => buffered_file = <<>>

\* an upload task that finds the mutex and the advisory lock free, and the
\* trigger true, enters the upload
C40_UploadsWhenFree ==
    [][(/\ upload_tasks' = upload_tasks - 1
        /\ section = {}
        /\ ~file_locked
        /\ is_time_to_upload(dotting_disabled, dot_uploading_disabled,
                             Unwrap(dotter_inner), buffered_file, now))
           => Len(uploader') = 1]_vars

\* an upload task ended without uploading while another process held the
\* advisory lock: no call and no task is left, and the line is in the file
C40_SkippedWhenLocked ==
    /\ Quiescent
    /\ file_locked
    /\ buffered_file # <<>>
    /\ monitor.requests = 0

====
